---- MODULE Spec2Model ----
(***************************************************************************)
(* A model of the magpie parser (package parser, stored in                 *)
(* src/24/src/magpie/token/token.go from line 232 on) and of the AST       *)
(* nodes of src/09/src/magpie/ast/ast.go.                                  *)
(*                                                                         *)
(* Every parse function of the Go code is an operator that takes the       *)
(* parser state p and returns the record [p |-> state after, node |->      *)
(* what the function returns].  The absent value (Go's nil) is the record  *)
(* Absent.  ParseProgram's loop is the state machine: one action per       *)
(* position in the loop.                                                   *)
(***************************************************************************)
EXTENDS Integers, Sequences, FiniteSets, TLC

VARIABLES
    src,      \* the source text given to the top-level parser: its lexemes,
              \* and the construct it was written as (form and parts)
    fs,       \* the file system and environment getImportedStatements reads
    pc,       \* position in ParseProgram: "loop" (at the loop test), "parsed"
              \* (after parseStatement), "panicking" (unwinding to the deferred
              \* recover), "done" (returned), "crashed" (the process died)
    p,        \* the Parser
    program,  \* the local program of ParseProgram
    statement, \* the local stmt of ParseProgram's loop
    ret,      \* what ParseProgram returned (Absent: nil)
    stdout    \* what ParseProgram printed

vars == <<src, fs, pc, p, program, statement, ret, stdout>>

-----------------------------------------------------------------------------
(* Precedence levels: the iota block of the parser.                        *)

LOWEST == 1
ASSIGN == 2
CONDOR == 3
CONDAND == 4
EQUALS == 5
LESSGREATER == 6
SUM == 7
PRODUCT == 8
REGEXP_MATCH == 9
PREFIX == 10
INCREMENT == 11
CALL == 12

precedencesDomain ==
    {"ASSIGN", "OR", "AND", "EQ", "NEQ", "LT", "LE", "GT", "GE", "PLUS", "MINUS",
     "MULTIPLY", "DIVIDE", "MOD", "POWER", "LPAREN", "DOT", "LBRACKET",
     "INCREMENT", "DECREMENT", "MATCH", "NOTMATCH"}

\* precedences with '*' entered at the level of '+'
precedencesMultiplyAtSum(t) ==
    CASE t = "ASSIGN" -> ASSIGN
      [] t = "OR" -> CONDOR
      [] t = "AND" -> CONDAND
      [] t \in {"EQ", "NEQ"} -> EQUALS
      [] t \in {"LT", "LE", "GT", "GE"} -> LESSGREATER
      [] t \in {"PLUS", "MINUS", "MULTIPLY"} -> SUM
      [] t \in {"DIVIDE", "MOD", "POWER"} -> PRODUCT
      [] t \in {"LPAREN", "DOT", "LBRACKET"} -> CALL
      [] t \in {"INCREMENT", "DECREMENT"} -> INCREMENT
      [] t \in {"MATCH", "NOTMATCH"} -> REGEXP_MATCH

precedences(t) ==
    CASE t = "ASSIGN" -> ASSIGN
      [] t = "OR" -> CONDOR
      [] t = "AND" -> CONDAND
      [] t \in {"EQ", "NEQ"} -> EQUALS
      [] t \in {"LT", "LE", "GT", "GE"} -> LESSGREATER
      [] t \in {"PLUS", "MINUS"} -> SUM
      [] t \in {"MULTIPLY", "DIVIDE", "MOD", "POWER"} -> PRODUCT
      [] t \in {"LPAREN", "DOT", "LBRACKET"} -> CALL
      [] t \in {"INCREMENT", "DECREMENT"} -> INCREMENT
      [] t \in {"MATCH", "NOTMATCH"} -> REGEXP_MATCH

-----------------------------------------------------------------------------
(* Tokens and positions.  A lexeme is a token without its position; the    *)
(* lexer (an external collaborator) gives each lexeme its position.        *)

Absent == [kind |-> "absent"]

Lx(type, lit) == [Type |-> type, Literal |-> lit]

Position(file, line, col) == [Filename |-> file, Line |-> line, Col |-> col]

\* Position.Sline: the line locator, with the file name when there is one.
Sline(pos) ==
    IF pos.Filename = <<>> THEN [Line |-> pos.Line]
    ELSE [Filename |-> pos.Filename, Line |-> pos.Line]

RuneCountInString(s) == Len(s)

\* The layout of a source text: lexemes are separated by one blank, and a new
\* line starts after each '{', '}' and ';'.
RECURSIVE LineOf(_, _)
LineOf(lexemes, i) ==
    IF i = 1 THEN 1
    ELSE LineOf(lexemes, i - 1)
         + (IF lexemes[i - 1].Type \in {"LBRACE", "RBRACE", "SEMICOLON"} THEN 1 ELSE 0)

RECURSIVE ColOf(_, _)
ColOf(lexemes, i) ==
    IF i = 1 \/ lexemes[i - 1].Type \in {"LBRACE", "RBRACE", "SEMICOLON"} THEN 1
    ELSE ColOf(lexemes, i - 1) + RuneCountInString(lexemes[i - 1].Literal) + 1

\* lexer.NewLexer followed by l.Filename = fn: the token stream of a file.
NewLexer(file, lexemes) ==
    [Filename |-> file,
     toks |-> [i \in 1..Len(lexemes) |->
                 [Type |-> lexemes[i].Type, Literal |-> lexemes[i].Literal,
                  Pos |-> Position(file, LineOf(lexemes, i), ColOf(lexemes, i))]],
     eof |-> [Type |-> "EOF", Literal |-> "",
              Pos |-> Position(file, LineOf(lexemes, Len(lexemes) + 1),
                               ColOf(lexemes, Len(lexemes) + 1))]]

\* The i-th token Lexer.NextToken hands out: the end-of-stream token is
\* repeated forever once reached.
TokAt(l, i) == IF i <= Len(l.toks) THEN l.toks[i] ELSE l.eof

-----------------------------------------------------------------------------
(* The Parser.  cur is the index of curToken in the stream; peekToken is   *)
(* the token after it.  fault is "panic" from the moment a run-time panic   *)
(* is raised: the panic unwinds every frame up to ParseProgram's deferred  *)
(* recover, so no statement of any parse function runs after it.  The      *)
(* model keeps the operators total by making, in a halted parser, every    *)
(* write a no-op and every read see the end of the stream, which every     *)
(* loop of the parser leaves; ParseProgram then discards what they built.  *)
(* fault is "fatal" when the goroutine stack is exhausted, which no        *)
(* recover catches; depth counts the ParseProgram frames of importing      *)
(* parsers below this parser on the stack.                                 *)

NewParser(l) ==
    [l |-> l, errors |-> <<>>, errorLines |-> <<>>, cur |-> 1,
     loopDepth |-> 0, fallthroughDepth |-> 0, fault |-> "none", depth |-> 0]

halted(q) == q.fault # "none"

R(q, node) == [p |-> q, node |-> node]

curToken(q) == IF halted(q) THEN q.l.eof ELSE TokAt(q.l, q.cur)

peekToken(q) == IF halted(q) THEN q.l.eof ELSE TokAt(q.l, q.cur + 1)

curTokenIs(q, t) == curToken(q).Type = t

peekTokenIs(q, t) == peekToken(q).Type = t

peekPrecedence(q) ==
    IF peekToken(q).Type \in precedencesDomain THEN precedences(peekToken(q).Type)
    ELSE LOWEST

curPrecedence(q) ==
    IF curToken(q).Type \in precedencesDomain THEN precedences(curToken(q).Type)
    ELSE LOWEST

nextToken(q) ==
    IF halted(q) \/ q.cur > Len(q.l.toks) THEN q
    ELSE [q EXCEPT !.cur = @ + 1]

\* addError without the append to errorLines
addErrorMessageOnly(q, text, pos, line) ==
    IF halted(q) THEN q
    ELSE [q EXCEPT !.errors = Append(@, [text |-> text, pos |-> pos])]

\* p.errors = append(p.errors, msg); p.errorLines = append(p.errorLines, line)
addError(q, text, pos, line) ==
    IF halted(q) THEN q
    ELSE [q EXCEPT !.errors = Append(@, [text |-> text, pos |-> pos]),
                   !.errorLines = Append(@, line)]

\* A run-time panic (a method call on a nil interface value).
raise(q) == IF halted(q) THEN q ELSE [q EXCEPT !.fault = "panic"]

\* p.loopDepth++ / p.loopDepth-- / p.fallthroughDepth++ / p.fallthroughDepth--
addLoopDepth(q, d) == IF halted(q) THEN q ELSE [q EXCEPT !.loopDepth = @ + d]

addFallthroughDepth(q, d) ==
    IF halted(q) THEN q ELSE [q EXCEPT !.fallthroughDepth = @ + d]

peekError(q, t) ==
    LET newPos == [curToken(q).Pos EXCEPT
                     !.Col = @ + RuneCountInString(curToken(q).Literal)]
    IN  addError(q, "expected next token to be " \o t, newPos,
                 Sline(curToken(q).Pos))

\* expectPeek returns a bool; here the node field carries it.
expectPeek(q, t) ==
    IF peekTokenIs(q, t) THEN R(nextToken(q), TRUE)
    ELSE R(peekError(q, t), FALSE)

noPrefixParseFnError(q, t) ==
    IF t # "EOF"
    THEN addError(q, "no prefix parse functions found", curToken(q).Pos,
                  Sline(curToken(q).Pos))
    ELSE q

-----------------------------------------------------------------------------
(* AST nodes are records tagged by kind, with the fields of the Go struct. *)

\* strconv.ParseFloat on the literal of a NUMBER token: the literals the
\* source texts use, the others being malformed.
decimalDigits == <<"1", "2", "3", "4", "5", "6", "7", "8", "9">>

ParseFloat(lit) ==
    IF \E d \in 1..Len(decimalDigits) : decimalDigits[d] = lit
    THEN [ok |-> TRUE,
          value |-> CHOOSE d \in 1..Len(decimalDigits) : decimalDigits[d] = lit]
    ELSE [ok |-> FALSE, value |-> 0]

\* Node.String() of the nodes of ast.go.  A call on an absent node is a nil
\* dereference; StringFaults says whether rendering a node hits one.
RECURSIVE StringFaults(_)
StringFaults(n) ==
    CASE n = Absent -> TRUE
      [] n.kind = "InfixExpression" -> StringFaults(n.Left) \/ StringFaults(n.Right)
      [] n.kind = "PrefixExpression" -> StringFaults(n.Right)
      [] OTHER -> FALSE

RECURSIVE String(_)
String(n) ==
    CASE n.kind = "InfixExpression" ->
            "(" \o String(n.Left) \o " " \o n.Operator \o " " \o String(n.Right) \o ")"
      [] n.kind = "PrefixExpression" -> "(" \o n.Operator \o String(n.Right) \o ")"
      [] n.kind = "Identifier" -> n.Value
      [] n.kind \in {"NumberLiteral", "NilLiteral", "BooleanLiteral"} -> n.Token.Literal
      [] OTHER -> "<" \o n.kind \o ">"

-----------------------------------------------------------------------------
(* The parse functions.  They are mutually recursive, as in the Go code;   *)
(* each Go loop is the recursive operator named after its function.        *)

RECURSIVE invoke(_, _),
          parseStatement(_), parseLetStatement(_, _), parseLetNames(_, _, _),
          parseLetValues(_, _), parseReturnStatement(_), parseReturnValues(_, _),
          parseBlockStatement(_), parseBlockStatements(_, _),
          parseExpressionStatement(_), parseExpression(_, _),
          parseExpressionInfixes(_, _, _), prefixParseFns(_), infixParseFns(_, _),
          parseAssignExpression(_, _), parsePrefixExpression(_),
          parseInfixExpression(_, _), parseGroupedExpression(_),
          parseTupleExpression(_, _, _), parseTupleMembers(_, _, _, _),
          parseArrayLiteral(_), parseExpressionList(_, _),
          parseExpressionListRest(_, _), parseHashLiteral(_), parseHashPairs(_, _),
          parseFunctionLiteral(_), parseCallExpression(_, _),
          parseIndexExpression(_, _), parseIfExpression(_),
          parseConditionalExpressions(_), parseElseParts(_, _),
          parseConditionalExpression(_), parseMethodCallExpression(_, _),
          parseDoLoopExpression(_), parseWhileLoopExpression(_),
          parseForLoopExpression(_), parseCForLoopExpression(_, _),
          parseForEachArrayExpression(_, _, _), parseForEachMapExpression(_, _, _),
          parseForEverLoopExpression(_, _), parseStructStatement(_),
          parseSwitchExpression(_), parseSwitchCases(_, _, _, _),
          parseCaseExprs(_, _), parseImportStatement(_),
          getImportedStatements(_, _), ParseProgram(_), ParseProgramLoop(_, _)

\* registerAction: the token types with a prefix strategy.
prefixRegistered ==
    {"ILLEGAL", "NUMBER", "IDENTIFIER", "STRING", "FUNCTION", "TRUE", "FALSE",
     "LBRACKET", "LBRACE", "REGEX", "NIL", "PLUS", "MINUS", "BANG", "LPAREN", "IF",
     "SWITCH", "FALLTHROUGH", "DO", "WHILE", "FOR", "BREAK", "CONTINUE"}

\* registerAction: the token types with an infix strategy.
infixRegistered ==
    {"PLUS", "MINUS", "MULTIPLY", "DIVIDE", "MOD", "POWER", "LPAREN", "LBRACKET",
     "LT", "LE", "GT", "GE", "EQ", "NEQ", "AND", "OR", "MATCH", "NOTMATCH",
     "INCREMENT", "DECREMENT", "DOT", "ASSIGN"}

parsePrefixIllegalExpression(q) ==
    R(addError(q, "Illegal token found", curToken(q).Pos, Sline(curToken(q).Pos)),
      Absent)

parseNumber(q) ==
    LET f == ParseFloat(curToken(q).Literal)
    IN  IF ~f.ok
        THEN R(addError(q, "could not parse as float", curToken(q).Pos,
                        Sline(curToken(q).Pos)), Absent)
        ELSE R(q, [kind |-> "NumberLiteral", Token |-> curToken(q), Value |-> f.value])

parseIdentifier(q) ==
    R(q, [kind |-> "Identifier", Token |-> curToken(q), Value |-> curToken(q).Literal])

parseBooleanLiteral(q) ==
    R(q, [kind |-> "BooleanLiteral", Token |-> curToken(q),
          Value |-> curTokenIs(q, "TRUE")])

parseStringLiteral(q) ==
    R(q, [kind |-> "StringLiteral", Token |-> curToken(q),
          Value |-> curToken(q).Literal])

parseRegexpLiteral(q) ==
    R(q, [kind |-> "RegExLiteral", Token |-> curToken(q),
          Value |-> curToken(q).Literal])

parseNilExpression(q) == R(q, [kind |-> "NilLiteral", Token |-> curToken(q)])

parsePostfixExpression(q, left) ==
    R(q, [kind |-> "PostfixExpression", Token |-> curToken(q), Left |-> left,
          Operator |-> curToken(q).Literal])

parseExpression(q, precedence) ==
    IF curToken(q).Type \notin prefixRegistered
    THEN R(noPrefixParseFnError(q, curToken(q).Type), Absent)
    ELSE LET left == invoke("prefixParseFns", <<q>>)
         IN  invoke("parseExpressionInfixes", <<left.p, precedence, left.node>>)

\* the loop of parseExpression
parseExpressionInfixes(q, precedence, leftExp) ==
    IF precedence < peekPrecedence(q)
    THEN IF peekToken(q).Type \notin infixRegistered
         THEN R(q, leftExp)
         ELSE LET r == invoke("infixParseFns", <<nextToken(q), leftExp>>)
              IN  invoke("parseExpressionInfixes", <<r.p, precedence, r.node>>)
    ELSE R(q, leftExp)

parseAssignExpression(q, name) ==
    IF StringFaults(name) THEN R(raise(q), Absent)
    ELSE IF String(name) = "self"
    THEN R(addError(q, "'self' can not be assigned", curToken(q).Pos,
                    Sline(curToken(q).Pos)), Absent)
    ELSE LET v == invoke("parseExpression", <<nextToken(q), LOWEST>>)
         IN  R(v.p, [kind |-> "AssignExpression", Token |-> curToken(q),
                     Name |-> name, Value |-> v.node])

parsePrefixExpression(q) ==
    LET r == invoke("parseExpression", <<nextToken(q), PREFIX>>)
    IN  R(r.p, [kind |-> "PrefixExpression", Token |-> curToken(q),
                Operator |-> curToken(q).Literal, Right |-> r.node])

\* parseInfixExpression without the special case of '**'
parseInfixExpressionNoPower(q, left) ==
    LET r == invoke("parseExpression", <<nextToken(q), curPrecedence(q)>>)
    IN  R(r.p, [kind |-> "InfixExpression", Token |-> curToken(q),
                Operator |-> curToken(q).Literal, Left |-> left, Right |-> r.node])

parseInfixExpression(q, left) ==
    LET precedence == IF curTokenIs(q, "POWER") THEN curPrecedence(q) - 1
                      ELSE curPrecedence(q)
        r == invoke("parseExpression", <<nextToken(q), precedence>>)
    IN  R(r.p, [kind |-> "InfixExpression", Token |-> curToken(q),
                Operator |-> curToken(q).Literal, Left |-> left, Right |-> r.node])

\* parseGroupedExpression that makes a tuple of every parenthesised expression
parseGroupedExpressionAlwaysTuple(q) ==
    LET savedToken == curToken(q)
        q1 == nextToken(q)
    IN  IF savedToken.Type = "LPAREN" /\ curTokenIs(q1, "RPAREN")
        THEN R(q1, [kind |-> "TupleLiteral", Token |-> savedToken, Members |-> <<>>])
        ELSE LET exp == invoke("parseExpression", <<q1, LOWEST>>)
             IN  invoke("parseTupleExpression", <<nextToken(exp.p), savedToken, exp.node>>)

parseGroupedExpression(q) ==
    LET savedToken == curToken(q)
        q1 == nextToken(q)
    IN  IF savedToken.Type = "LPAREN" /\ curTokenIs(q1, "RPAREN")
        THEN R(q1, [kind |-> "TupleLiteral", Token |-> savedToken, Members |-> <<>>])
        ELSE LET exp == invoke("parseExpression", <<q1, LOWEST>>)
             IN  IF peekTokenIs(exp.p, "COMMA")
                 THEN invoke("parseTupleExpression", <<nextToken(exp.p), savedToken, exp.node>>)
                 ELSE LET e == expectPeek(exp.p, "RPAREN")
                      IN  IF ~e.node THEN R(e.p, Absent) ELSE R(e.p, exp.node)

parseTupleExpression(q, tok, expr) == invoke("parseTupleMembers", <<q, tok, <<expr>>, tok>>)

\* the loop of parseTupleExpression
parseTupleMembers(q, tok, members, oldToken) ==
    CASE curTokenIs(q, "RPAREN") ->
            R(q, [kind |-> "TupleLiteral", Token |-> tok, Members |-> members])
      [] curTokenIs(q, "COMMA") ->
            LET q1 == nextToken(q)
            IN  IF curTokenIs(q1, "RPAREN")
                THEN R(q1, [kind |-> "TupleLiteral", Token |-> tok,
                            Members |-> members])
                ELSE LET m == invoke("parseExpression", <<q1, LOWEST>>)
                     IN  invoke("parseTupleMembers", <<nextToken(m.p), tok,
                                           Append(members, m.node), curToken(m.p)>>)
      [] OTHER ->
            LET pos == [oldToken.Pos EXCEPT !.Col = @ + Len(oldToken.Literal)]
            IN  R(addError(q, "expected token to be ',' or ')'", pos, Sline(pos)),
                  Absent)

parseArrayLiteral(q) ==
    LET r == invoke("parseExpressionList", <<q, "RBRACKET">>)
    IN  R(r.p, [kind |-> "ArrayLiteral", Token |-> curToken(q), Members |-> r.node])

\* Returns the list; the nil slice of the error path is the empty list.
parseExpressionList(q, end) ==
    IF peekTokenIs(q, end) THEN R(nextToken(q), <<>>)
    ELSE LET first == invoke("parseExpression", <<nextToken(q), LOWEST>>)
         IN  invoke("parseExpressionListRest", <<R(first.p, <<first.node>>), end>>)

\* the loop of parseExpressionList and its closing expectPeek
parseExpressionListRest(r, end) ==
    IF peekTokenIs(r.p, "COMMA")
    THEN LET e == invoke("parseExpression", <<nextToken(nextToken(r.p)), LOWEST>>)
         IN  invoke("parseExpressionListRest", <<R(e.p, Append(r.node, e.node)), end>>)
    ELSE LET e == expectPeek(r.p, end)
         IN  IF ~e.node THEN R(e.p, <<>>) ELSE R(e.p, r.node)

\* hash.Pairs[key] = value: the keys are node pointers, so only an absent key
\* can be written twice.
putPair(pairs, key, value) ==
    IF key = Absent /\ \E i \in 1..Len(pairs) : pairs[i][1] = Absent
    THEN [i \in 1..Len(pairs) |->
            IF pairs[i][1] = Absent THEN <<key, value>> ELSE pairs[i]]
    ELSE Append(pairs, <<key, value>>)

parseHashLiteral(q) ==
    LET r == invoke("parseHashPairs", <<q, <<>>>>)
    IN  IF r.node = Absent THEN r
        ELSE R(r.p, [kind |-> "HashLiteral", Token |-> curToken(q),
                     Pairs |-> r.node.pairs])

\* the loop of parseHashLiteral and its closing expectPeek
parseHashPairs(q, pairs) ==
    IF ~peekTokenIs(q, "RBRACE")
    THEN LET key == invoke("parseExpression", <<nextToken(q), LOWEST>>)
             colon == expectPeek(key.p, "COLON")
         IN  IF ~colon.node THEN R(colon.p, Absent)
             ELSE LET value == invoke("parseExpression", <<nextToken(colon.p), LOWEST>>)
                      comma == expectPeek(value.p, "COMMA")
                  IN  IF peekTokenIs(value.p, "RBRACE")
                      THEN invoke("parseHashPairs", <<value.p, putPair(pairs, key.node, value.node)>>)
                      ELSE IF ~comma.node THEN R(comma.p, Absent)
                      ELSE invoke("parseHashPairs", <<comma.p,
                                          putPair(pairs, key.node, value.node)>>)
    ELSE LET e == expectPeek(q, "RBRACE")
         IN  IF ~e.node THEN R(e.p, Absent) ELSE R(e.p, [pairs |-> pairs])

\* the loop of parseFunctionParameters and its closing expectPeek
RECURSIVE parseFunctionParametersRest(_)
parseFunctionParametersRest(r) ==
    IF peekTokenIs(r.p, "COMMA")
    THEN LET q2 == nextToken(nextToken(r.p))
         IN  parseFunctionParametersRest(
                 R(q2, Append(r.node, [kind |-> "Identifier", Token |-> curToken(q2),
                                       Value |-> curToken(q2).Literal])))
    ELSE LET e == expectPeek(r.p, "RPAREN")
         IN  IF ~e.node THEN R(e.p, <<>>) ELSE R(e.p, r.node)

parseFunctionParameters(q) ==
    IF peekTokenIs(q, "RPAREN") THEN R(nextToken(q), <<>>)
    ELSE LET q1 == nextToken(q)
         IN  parseFunctionParametersRest(
                 R(q1, <<[kind |-> "Identifier", Token |-> curToken(q1),
                          Value |-> curToken(q1).Literal]>>))

parseFunctionLiteral(q) ==
    LET named == peekTokenIs(q, "IDENTIFIER")
        q1 == IF named THEN nextToken(q) ELSE q
        name == IF named THEN curToken(q1).Literal ELSE ""
        lp == expectPeek(q1, "LPAREN")
    IN  IF ~lp.node THEN R(lp.p, Absent)
        ELSE LET params == parseFunctionParameters(lp.p)
                 lb == expectPeek(params.p, "LBRACE")
             IN  IF ~lb.node THEN R(lb.p, Absent)
                 ELSE LET body == invoke("parseBlockStatement", <<lb.p>>)
                      IN  R(body.p, [kind |-> "FunctionLiteral", Token |-> curToken(q),
                                     Name |-> name, Parameters |-> params.node,
                                     Body |-> body.node])

parseCallExpression(q, function) ==
    LET r == invoke("parseExpressionList", <<q, "RPAREN">>)
    IN  R(r.p, [kind |-> "CallExpression", Token |-> curToken(q),
                Function |-> function, Arguments |-> r.node])

parseIndexExpression(q, left) ==
    LET index == invoke("parseExpression", <<nextToken(q), LOWEST>>)
        e == expectPeek(index.p, "RBRACKET")
    IN  IF ~e.node THEN R(e.p, Absent)
        ELSE R(e.p, [kind |-> "IndexExpression", Token |-> curToken(q),
                     Left |-> left, Index |-> index.node])

parseMethodCallExpression(q, obj) ==
    LET q1 == nextToken(q)
        name == parseIdentifier(q1).node
        call == IF ~peekTokenIs(q1, "LPAREN") THEN invoke("parseExpression", <<q1, CALL>>)
                ELSE invoke("parseCallExpression", <<nextToken(q1), name>>)
    IN  R(call.p, [kind |-> "MethodCallExpression", Token |-> curToken(q),
                   Object |-> obj, Call |-> call.node])

-----------------------------------------------------------------------------
(* if / else-if / else                                                     *)

\* Returns the IfExpression: the conditions list is the nil slice (empty)
\* when an 'else' is followed by neither 'if' nor '{'.
parseIfExpression(q) ==
    LET r == invoke("parseConditionalExpressions", <<q>>)
    IN  R(r.p, [kind |-> "IfExpression", Token |-> curToken(q),
                Conditions |-> r.node.ic, Alternative |-> r.node.Alternative])

parseConditionalExpressions(q) ==
    LET first == invoke("parseConditionalExpression", <<q>>)
    IN  invoke("parseElseParts", <<first.p, [ic |-> <<first.node>>, Alternative |-> Absent]>>)

\* parseElseParts going on with the loop after an else block
parseElsePartsPastElse(q, ie) ==
    IF peekTokenIs(q, "ELSE")
    THEN LET q1 == nextToken(q)
         IN  IF ~peekTokenIs(q1, "IF")
             THEN IF peekTokenIs(q1, "LBRACE")
                  THEN LET alt == invoke("parseBlockStatement", <<nextToken(q1)>>)
                       IN  invoke("parseElseParts", <<alt.p, [ie EXCEPT !.Alternative = alt.node]>>)
                  ELSE R(addError(q1, "'else' part must be followed by a '{'.",
                                  curToken(q1).Pos, Sline(curToken(q1).Pos)),
                         [ie EXCEPT !.ic = <<>>])
             ELSE LET c == invoke("parseConditionalExpression", <<nextToken(q1)>>)
                  IN  invoke("parseElseParts", <<c.p, [ie EXCEPT !.ic = Append(@, c.node)]>>)
    ELSE R(q, ie)

\* the else-if loop of parseConditionalExpressions
parseElseParts(q, ie) ==
    IF peekTokenIs(q, "ELSE")
    THEN LET q1 == nextToken(q)
         IN  IF ~peekTokenIs(q1, "IF")
             THEN IF peekTokenIs(q1, "LBRACE")
                  THEN LET alt == invoke("parseBlockStatement", <<nextToken(q1)>>)
                       IN  R(alt.p, [ie EXCEPT !.Alternative = alt.node])
                  ELSE R(addError(q1, "'else' part must be followed by a '{'.",
                                  curToken(q1).Pos, Sline(curToken(q1).Pos)),
                         [ie EXCEPT !.ic = <<>>])
             ELSE LET c == invoke("parseConditionalExpression", <<nextToken(q1)>>)
                  IN  invoke("parseElseParts", <<c.p, [ie EXCEPT !.ic = Append(@, c.node)]>>)
    ELSE R(q, ie)

parseConditionalExpression(q) ==
    LET cond == invoke("parseExpressionStatement", <<nextToken(q)>>)
    IN  IF ~peekTokenIs(cond.p, "LBRACE")
        THEN R(addError(cond.p, "'if' expression must be followed by a '{'.",
                        curToken(cond.p).Pos, Sline(curToken(cond.p).Pos)), Absent)
        ELSE LET body == invoke("parseBlockStatement", <<nextToken(cond.p)>>)
             IN  R(body.p, [kind |-> "IfConditionExpr", Token |-> curToken(q),
                            Cond |-> cond.node.Expression, Body |-> body.node])

-----------------------------------------------------------------------------
(* loops, break and continue                                               *)

parseDoLoopExpression(q) ==
    LET q1 == addLoopDepth(q, 1)
        block == invoke("parseBlockStatement", <<expectPeek(q1, "LBRACE").p>>)
    IN  R(addLoopDepth(block.p, -1),
          [kind |-> "DoLoop", Token |-> curToken(q), Block |-> block.node])

parseWhileLoopExpression(q) ==
    LET q1 == addLoopDepth(q, 1)
        cond == invoke("parseExpressionStatement", <<nextToken(q1)>>)
        q2 == IF peekTokenIs(cond.p, "RPAREN") THEN nextToken(cond.p) ELSE cond.p
    IN  IF peekTokenIs(q2, "LBRACE")
        THEN LET block == invoke("parseBlockStatement", <<nextToken(q2)>>)
             IN  R(addLoopDepth(block.p, -1),
                   [kind |-> "WhileLoop", Token |-> curToken(q),
                    Condition |-> cond.node.Expression, Block |-> block.node])
        ELSE R(addError(q2, "for loop must be followed by a '{'", curToken(q2).Pos,
                        Sline(curToken(q2).Pos)), Absent)

parseForLoopExpression(q) ==
    LET q1 == addLoopDepth(q, 1)
        tok == curToken(q)
    IN  IF peekTokenIs(q1, "LBRACE")
        THEN LET r == invoke("parseForEverLoopExpression", <<q1, tok>>)
             IN  R(addLoopDepth(r.p, -1), r.node)
        ELSE IF peekTokenIs(q1, "LPAREN")
        THEN LET r == invoke("parseCForLoopExpression", <<q1, tok>>)
             IN  R(addLoopDepth(r.p, -1), r.node)
        ELSE LET q2 == nextToken(q1)
                 lit == curToken(q2).Literal
             IN  IF lit = "_"
                 THEN LET r == invoke("parseForEachMapExpression", <<q2, tok, lit>>)
                      IN  R(addLoopDepth(r.p, -1), r.node)
                 ELSE IF curTokenIs(q2, "IDENTIFIER")
                 THEN LET r == IF peekTokenIs(q2, "COMMA")
                               THEN invoke("parseForEachMapExpression", <<q2, tok, lit>>)
                               ELSE invoke("parseForEachArrayExpression", <<q2, tok, lit>>)
                      IN  R(addLoopDepth(r.p, -1), r.node)
                 ELSE R(addError(q2,
                          "for loop must be followed by an underscore or identifier",
                          curToken(q2).Pos, Sline(curToken(q2).Pos)), Absent)

\* one clause position of the header: the clause, when the current token is
\* not ';', and (for init and cond) the p.nextToken() after it
parseCForClause(q, isLast) ==
    IF curTokenIs(q, "SEMICOLON") THEN R(q, Absent)
    ELSE LET e == invoke("parseExpression", <<q, LOWEST>>)
         IN  R(IF isLast THEN e.p ELSE nextToken(e.p), e.node)

\* parseCForLoopBlock without the degenerate case of three empty clauses
parseCForLoopBlockAlwaysCFor(tok, init, cond, update) ==
    LET rp == expectPeek(update.p, "RPAREN")
    IN  IF ~rp.node THEN R(rp.p, Absent)
        ELSE IF ~peekTokenIs(rp.p, "LBRACE")
        THEN R(addError(rp.p, "for loop must be followed by a '{'.",
                        curToken(rp.p).Pos, Sline(curToken(rp.p).Pos)), Absent)
        ELSE LET block == invoke("parseBlockStatement", <<nextToken(rp.p)>>)
             IN  IF FALSE
                 THEN R(block.p, [kind |-> "ForEverLoop", Token |-> tok,
                                  Block |-> block.node])
                 ELSE R(block.p, [kind |-> "CForLoop", Token |-> tok,
                                  Init |-> init.node, Cond |-> cond.node,
                                  Update |-> update.node, Block |-> block.node])

\* from the ')' of the header on
parseCForLoopBlock(tok, init, cond, update) ==
    LET rp == expectPeek(update.p, "RPAREN")
    IN  IF ~rp.node THEN R(rp.p, Absent)
        ELSE IF ~peekTokenIs(rp.p, "LBRACE")
        THEN R(addError(rp.p, "for loop must be followed by a '{'.",
                        curToken(rp.p).Pos, Sline(curToken(rp.p).Pos)), Absent)
        ELSE LET block == invoke("parseBlockStatement", <<nextToken(rp.p)>>)
             IN  IF init.node = Absent /\ cond.node = Absent /\ update.node = Absent
                 THEN R(block.p, [kind |-> "ForEverLoop", Token |-> tok,
                                  Block |-> block.node])
                 ELSE R(block.p, [kind |-> "CForLoop", Token |-> tok,
                                  Init |-> init.node, Cond |-> cond.node,
                                  Update |-> update.node, Block |-> block.node])

parseCForLoopUpdate(tok, init, cond) ==
    parseCForLoopBlock(tok, init, cond, parseCForClause(nextToken(cond.p), TRUE))

parseCForLoopCond(tok, init) ==
    parseCForLoopUpdate(tok, init, parseCForClause(nextToken(init.p), FALSE))

parseCForLoopExpression(q, tok) ==
    LET lp == expectPeek(q, "LPAREN")
    IN  IF ~lp.node THEN R(lp.p, Absent)
        ELSE parseCForLoopCond(tok, parseCForClause(nextToken(lp.p), FALSE))

parseForEachArrayExpression(q, tok, variable) ==
    LET in == expectPeek(q, "IN")
    IN  IF ~in.node THEN R(in.p, Absent)
        ELSE LET value == invoke("parseExpression", <<nextToken(in.p), LOWEST>>)
             IN  IF peekTokenIs(value.p, "LBRACE")
                 THEN LET block == invoke("parseBlockStatement", <<nextToken(value.p)>>)
                      IN  R(block.p, [kind |-> "ForEachArrayLoop", Token |-> tok,
                                      Var |-> variable, Value |-> value.node,
                                      Block |-> block.node])
                 ELSE R(addError(value.p, "for loop must be followed by a '{' ",
                                 curToken(value.p).Pos, Sline(curToken(value.p).Pos)),
                        Absent)

\* parseForEachMapExpression refusing '_' for either name
parseForEachMapExpressionNoDiscard(q, tok, key) ==
    LET comma == expectPeek(q, "COMMA")
    IN  IF ~comma.node THEN R(comma.p, Absent)
        ELSE
        LET q1 == nextToken(comma.p)
            value == curToken(q1).Literal
        IN  IF value # "_" /\ ~curTokenIs(q1, "IDENTIFIER")
            THEN R(addError(q1, "for loop must be followed by an identifier",
                            curToken(q1).Pos, Sline(curToken(q1).Pos)), Absent)
            ELSE IF key = "_" \/ value = "_"
            THEN R(addError(q1, "foreach map's key & map are both '_'",
                            curToken(q1).Pos, Sline(curToken(q1).Pos)), Absent)
            ELSE
            LET in == expectPeek(q1, "IN")
            IN  IF ~in.node THEN R(in.p, Absent)
                ELSE LET x == invoke("parseExpression", <<nextToken(in.p), LOWEST>>)
                     IN  IF peekTokenIs(x.p, "LBRACE")
                         THEN LET block == invoke("parseBlockStatement", <<nextToken(x.p)>>)
                              IN  R(block.p,
                                    [kind |-> "ForEachMapLoop", Token |-> tok,
                                     Key |-> key, Value |-> value, X |-> x.node,
                                     Block |-> block.node])
                         ELSE R(addError(x.p, "for loop must be followed by a '{'.",
                                         curToken(x.p).Pos, Sline(curToken(x.p).Pos)),
                                Absent)

parseForEachMapExpression(q, tok, key) ==
    LET comma == expectPeek(q, "COMMA")
    IN  IF ~comma.node THEN R(comma.p, Absent)
        ELSE
        LET q1 == nextToken(comma.p)
            value == curToken(q1).Literal
        IN  IF value # "_" /\ ~curTokenIs(q1, "IDENTIFIER")
            THEN R(addError(q1, "for loop must be followed by an identifier",
                            curToken(q1).Pos, Sline(curToken(q1).Pos)), Absent)
            ELSE IF key = "_" /\ value = "_"
            THEN R(addError(q1, "foreach map's key & map are both '_'",
                            curToken(q1).Pos, Sline(curToken(q1).Pos)), Absent)
            ELSE
            LET in == expectPeek(q1, "IN")
            IN  IF ~in.node THEN R(in.p, Absent)
                ELSE LET x == invoke("parseExpression", <<nextToken(in.p), LOWEST>>)
                     IN  IF peekTokenIs(x.p, "LBRACE")
                         THEN LET block == invoke("parseBlockStatement", <<nextToken(x.p)>>)
                              IN  R(block.p,
                                    [kind |-> "ForEachMapLoop", Token |-> tok,
                                     Key |-> key, Value |-> value, X |-> x.node,
                                     Block |-> block.node])
                         ELSE R(addError(x.p, "for loop must be followed by a '{'.",
                                         curToken(x.p).Pos, Sline(curToken(x.p).Pos)),
                                Absent)

parseForEverLoopExpression(q, tok) ==
    LET block == invoke("parseBlockStatement", <<expectPeek(q, "LBRACE").p>>)
    IN  R(block.p, [kind |-> "ForEverLoop", Token |-> tok, Block |-> block.node])

\* parseBreakExpression without the test of loopDepth
parseBreakExpressionUnchecked(q) ==
    R(q, [kind |-> "BreakExpression", Token |-> curToken(q)])

parseBreakExpression(q) ==
    IF q.loopDepth = 0
    THEN R(addError(q, "'break' outside of loop context", curToken(q).Pos,
                    Sline(curToken(q).Pos)), Absent)
    ELSE R(q, [kind |-> "BreakExpression", Token |-> curToken(q)])

parseContinueExpression(q) ==
    IF q.loopDepth = 0
    THEN R(addError(q, "'continue' outside of loop context", curToken(q).Pos,
                    Sline(curToken(q).Pos)), Absent)
    ELSE R(q, [kind |-> "ContinueExpression", Token |-> curToken(q)])

-----------------------------------------------------------------------------
(* switch and fallthrough                                                  *)

\* stmt is an *ast.ExpressionStatement holding an *ast.FallthroughExpression
isFallthroughStatement(stmt) ==
    /\ stmt.kind = "ExpressionStatement"
    /\ stmt.Expression.kind = "FallthroughExpression"

\* The statements, in the order of the two nested range loops, at which the
\* check of 'fallthrough' position reports: <<i, j>> is statement j of case i.
misplacedFallthroughs(cases) ==
    {ij \in UNION {{<<i, j>> : j \in 1..Len(cases[i].Block.Statements)} :
                      i \in 1..Len(cases)} :
        /\ isFallthroughStatement(cases[ij[1]].Block.Statements[ij[2]])
        /\ \/ ij[2] # Len(cases[ij[1]].Block.Statements)
           \/ ij[1] = Len(cases)}

firstMisplacedFallthrough(cases) ==
    CHOOSE ij \in misplacedFallthroughs(cases) :
        \A kl \in misplacedFallthroughs(cases) :
            ij[1] < kl[1] \/ (ij[1] = kl[1] /\ ij[2] <= kl[2])

\* the post-pass of parseSwitchExpression: q is the parser after the case list
\* parseSwitchExpression without the check of 'fallthrough' position
checkFallthroughPositionSkipped(q, switchExpr) ==
    R(addFallthroughDepth(q, -1), [switchExpr EXCEPT !.RBraceToken = curToken(q)])

checkFallthroughPosition(q, switchExpr) ==
    IF misplacedFallthroughs(switchExpr.Cases) = {}
    THEN R(addFallthroughDepth(q, -1), [switchExpr EXCEPT !.RBraceToken = curToken(q)])
    ELSE LET ij == firstMisplacedFallthrough(switchExpr.Cases)
             stmts == switchExpr.Cases[ij[1]].Block.Statements
             stmt == stmts[ij[2]]
         IN  IF ij[2] # Len(stmts)
             THEN R(addError(q,
                      "fallthrough can be used only as a last statement inside case clause",
                      [Line |-> stmt.Token.Pos.Line], Sline(curToken(q).Pos)), Absent)
             ELSE R(addError(q, "cannot fallthrough final case in switch",
                             [Line |-> stmt.Token.Pos.Line], Sline(stmt.Token.Pos)),
                    Absent)

parseSwitchExpression(q) ==
    LET q1 == addFallthroughDepth(q, 1)
        expr == invoke("parseExpression", <<nextToken(q1), LOWEST>>)
        lb == expectPeek(expr.p, "LBRACE")
    IN  IF expr.node = Absent THEN R(expr.p, Absent)
        ELSE IF ~lb.node THEN R(lb.p, Absent)
        ELSE invoke("parseSwitchCases", <<nextToken(lb.p),
                              [kind |-> "SwitchExpression", Token |-> curToken(q),
                               Expr |-> expr.node, Cases |-> <<>>,
                               RBraceToken |-> Absent], 0, Absent>>)

\* 'case' e {, e}: the expressions of one case entry
parseCaseExprs(q, exprs) ==
    LET e == invoke("parseExpression", <<q, LOWEST>>)
    IN  IF peekTokenIs(e.p, "COMMA")
        THEN invoke("parseCaseExprs", <<nextToken(nextToken(e.p)), Append(exprs, e.node)>>)
        ELSE R(e.p, Append(exprs, e.node))

\* parseSwitchExpression reporting a second 'default' at the 'switch' token
parseSwitchCasesReportsSwitch(q, switchExpr, default_cnt, defaultToken) ==
    IF curTokenIs(q, "RBRACE")
    THEN checkFallthroughPosition(q, [switchExpr EXCEPT !.RBraceToken = curToken(q)])
    ELSE IF curTokenIs(q, "EOF")
    THEN R(addError(q, "unterminated switch statement", curToken(q).Pos,
                    Sline(curToken(q).Pos)), Absent)
    ELSE IF ~curTokenIs(q, "CASE") /\ ~curTokenIs(q, "DEFAULT")
    THEN R(addError(q, "expected 'case' or 'default'", curToken(q).Pos,
                    Sline(curToken(q).Pos)), Absent)
    ELSE
    LET isCase == curTokenIs(q, "CASE")
        exprs == IF isCase THEN invoke("parseCaseExprs", <<nextToken(q), <<>>>>) ELSE R(q, <<>>)
        cnt == IF isCase THEN default_cnt ELSE default_cnt + 1
        dtok == IF ~isCase /\ cnt > 1 THEN curToken(q) ELSE defaultToken
        lb == expectPeek(exprs.p, "LBRACE")
    IN  IF cnt > 1
        THEN R(addError(exprs.p, "more than one default are not allowed", switchExpr.Token.Pos,
                        Sline(switchExpr.Token.Pos)), Absent)
        ELSE IF ~lb.node THEN R(lb.p, Absent)
        ELSE
        LET block == invoke("parseBlockStatement", <<lb.p>>)
        IN  IF ~curTokenIs(block.p, "RBRACE")
            THEN R(addError(block.p, "expected token to be '}'",
                            curToken(block.p).Pos, Sline(curToken(block.p).Pos)),
                   Absent)
            ELSE invoke("parseSwitchCases", <<
                     nextToken(block.p),
                     [switchExpr EXCEPT !.Cases =
                         Append(@, [kind |-> "CaseExpression", Token |-> curToken(q),
                                    Exprs |-> exprs.node, Default |-> ~isCase,
                                    Block |-> block.node,
                                    RBraceToken |-> curToken(block.p)])],
                     cnt, dtok>>)

\* the case loop of parseSwitchExpression, then its check of fallthrough
parseSwitchCases(q, switchExpr, default_cnt, defaultToken) ==
    IF curTokenIs(q, "RBRACE")
    THEN checkFallthroughPosition(q, [switchExpr EXCEPT !.RBraceToken = curToken(q)])
    ELSE IF curTokenIs(q, "EOF")
    THEN R(addError(q, "unterminated switch statement", curToken(q).Pos,
                    Sline(curToken(q).Pos)), Absent)
    ELSE IF ~curTokenIs(q, "CASE") /\ ~curTokenIs(q, "DEFAULT")
    THEN R(addError(q, "expected 'case' or 'default'", curToken(q).Pos,
                    Sline(curToken(q).Pos)), Absent)
    ELSE
    LET isCase == curTokenIs(q, "CASE")
        exprs == IF isCase THEN invoke("parseCaseExprs", <<nextToken(q), <<>>>>) ELSE R(q, <<>>)
        cnt == IF isCase THEN default_cnt ELSE default_cnt + 1
        dtok == IF ~isCase /\ cnt > 1 THEN curToken(q) ELSE defaultToken
        lb == expectPeek(exprs.p, "LBRACE")
    IN  IF cnt > 1
        THEN R(addError(exprs.p, "more than one default are not allowed", dtok.Pos,
                        Sline(switchExpr.Token.Pos)), Absent)
        ELSE IF ~lb.node THEN R(lb.p, Absent)
        ELSE
        LET block == invoke("parseBlockStatement", <<lb.p>>)
        IN  IF ~curTokenIs(block.p, "RBRACE")
            THEN R(addError(block.p, "expected token to be '}'",
                            curToken(block.p).Pos, Sline(curToken(block.p).Pos)),
                   Absent)
            ELSE invoke("parseSwitchCases", <<
                     nextToken(block.p),
                     [switchExpr EXCEPT !.Cases =
                         Append(@, [kind |-> "CaseExpression", Token |-> curToken(q),
                                    Exprs |-> exprs.node, Default |-> ~isCase,
                                    Block |-> block.node,
                                    RBraceToken |-> curToken(block.p)])],
                     cnt, dtok>>)

parseFallThroughExpression(q) ==
    IF q.fallthroughDepth = 0
    THEN R(addError(q, "'fallthrough' outside of switch context", curToken(q).Pos,
                    Sline(curToken(q).Pos)), Absent)
    ELSE R(q, [kind |-> "FallthroughExpression", Token |-> curToken(q)])

-----------------------------------------------------------------------------
(* The dispatch tables built by registerAction.                            *)

prefixParseFns(q) ==
    LET t == curToken(q).Type
    IN  CASE t = "ILLEGAL" -> parsePrefixIllegalExpression(q)
          [] t = "NUMBER" -> parseNumber(q)
          [] t = "IDENTIFIER" -> parseIdentifier(q)
          [] t = "STRING" -> parseStringLiteral(q)
          [] t = "FUNCTION" -> invoke("parseFunctionLiteral", <<q>>)
          [] t \in {"TRUE", "FALSE"} -> parseBooleanLiteral(q)
          [] t = "LBRACKET" -> invoke("parseArrayLiteral", <<q>>)
          [] t = "LBRACE" -> invoke("parseHashLiteral", <<q>>)
          [] t = "REGEX" -> parseRegexpLiteral(q)
          [] t = "NIL" -> parseNilExpression(q)
          [] t \in {"PLUS", "MINUS", "BANG"} -> invoke("parsePrefixExpression", <<q>>)
          [] t = "LPAREN" -> invoke("parseGroupedExpression", <<q>>)
          [] t = "IF" -> invoke("parseIfExpression", <<q>>)
          [] t = "SWITCH" -> invoke("parseSwitchExpression", <<q>>)
          [] t = "FALLTHROUGH" -> parseFallThroughExpression(q)
          [] t = "DO" -> invoke("parseDoLoopExpression", <<q>>)
          [] t = "WHILE" -> invoke("parseWhileLoopExpression", <<q>>)
          [] t = "FOR" -> invoke("parseForLoopExpression", <<q>>)
          [] t = "BREAK" -> parseBreakExpression(q)
          [] t = "CONTINUE" -> parseContinueExpression(q)

infixParseFns(q, left) ==
    LET t == curToken(q).Type
    IN  CASE t = "LPAREN" -> invoke("parseCallExpression", <<q, left>>)
          [] t = "LBRACKET" -> invoke("parseIndexExpression", <<q, left>>)
          [] t \in {"INCREMENT", "DECREMENT"} -> parsePostfixExpression(q, left)
          [] t = "DOT" -> invoke("parseMethodCallExpression", <<q, left>>)
          [] t = "ASSIGN" -> invoke("parseAssignExpression", <<q, left>>)
          [] OTHER -> invoke("parseInfixExpression", <<q, left>>)

-----------------------------------------------------------------------------
(* Statements                                                              *)

\* A nil *ast.LetStatement stored in an ast.Statement: an interface value
\* that holds a nil pointer, and so compares unequal to nil.
NilLetStatement == [kind |-> "LetStatement", nilPointer |-> TRUE]

parseStatement(q) ==
    LET t == curToken(q).Type
    IN  CASE t = "IMPORT" -> invoke("parseImportStatement", <<q>>)
          [] t = "LET" ->
                LET r == invoke("parseLetStatement", <<q, TRUE>>)
                IN  IF r.node = Absent THEN R(r.p, NilLetStatement) ELSE r
          [] t = "RETURN" -> invoke("parseReturnStatement", <<q>>)
          [] t = "LBRACE" -> invoke("parseBlockStatement", <<q>>)
          [] t = "STRUCT" -> invoke("parseStructStatement", <<q>>)
          [] t = "IDENTIFIER" /\ peekTokenIs(q, "COMMA") ->
                LET r == invoke("parseLetStatement", <<q, FALSE>>)
                IN  IF r.node = Absent THEN R(r.p, NilLetStatement) ELSE r
          [] OTHER -> invoke("parseExpressionStatement", <<q>>)

parseLetStatement(q, nextFlag) ==
    LET tok == IF ~nextFlag
               THEN [Pos |-> curToken(q).Pos, Type |-> "LET", Literal |-> "let"]
               ELSE curToken(q)
    IN  invoke("parseLetNames", <<q, nextFlag,
                      [kind |-> "LetStatement", Token |-> tok, Names |-> <<>>,
                       Values |-> <<>>]>>)

\* the first loop of parseLetStatement (the left hand side), and what follows
parseLetNames(q, nextFlag, stmt) ==
    LET q1 == IF nextFlag THEN nextToken(q) ELSE q
    IN  IF ~curTokenIs(q1, "IDENTIFIER") /\ curToken(q1).Literal # "_"
        THEN R(addError(q1, "expected token to be identifier|underscore",
                        curToken(q1).Pos, Sline(curToken(q1).Pos)), stmt)
        ELSE IF curToken(q1).Literal = "self"
        THEN R(addError(q1, "'self' can not be assigned", curToken(q1).Pos,
                        Sline(curToken(q1).Pos)), Absent)
        ELSE
        LET name == [kind |-> "Identifier", Token |-> curToken(q1),
                     Value |-> curToken(q1).Literal]
            stmt1 == [stmt EXCEPT !.Names = Append(@, name)]
            q2 == nextToken(q1)
        IN  IF curTokenIs(q2, "SEMICOLON") THEN R(q2, stmt1)
            ELSE IF curTokenIs(q2, "ASSIGN") THEN invoke("parseLetValues", <<nextToken(q2), stmt1>>)
            ELSE IF ~curTokenIs(q2, "COMMA")
            THEN R(addError(q2, "expected token to be comma", curToken(q2).Pos,
                            Sline(curToken(q2).Pos)), stmt1)
            ELSE invoke("parseLetNames", <<q2, TRUE, stmt1>>)

\* the second loop of parseLetStatement (the right hand side)
parseLetValues(q, stmt) ==
    LET v == invoke("parseExpressionStatement", <<q>>)
        stmt1 == [stmt EXCEPT !.Values = Append(@, v.node.Expression)]
    IN  IF ~peekTokenIs(v.p, "COMMA") THEN R(v.p, stmt1)
        ELSE invoke("parseLetValues", <<nextToken(nextToken(v.p)), stmt1>>)

parseReturnStatement(q) ==
    LET stmt == [kind |-> "ReturnStatement", Token |-> curToken(q),
                 ReturnValues |-> <<>>, ReturnValue |-> Absent]
    IN  IF peekTokenIs(q, "SEMICOLON") THEN R(nextToken(q), stmt)
        ELSE IF peekTokenIs(q, "RBRACE") THEN R(q, stmt)
        ELSE LET r == invoke("parseReturnValues", <<nextToken(q), <<>>>>)
             IN  R(r.p, [stmt EXCEPT !.ReturnValues = r.node,
                                     !.ReturnValue = r.node[1]])

\* the loop of parseReturnStatement
parseReturnValues(q, values) ==
    LET v == invoke("parseExpressionStatement", <<q>>)
    IN  IF ~peekTokenIs(v.p, "COMMA") THEN R(v.p, Append(values, v.node.Expression))
        ELSE invoke("parseReturnValues", <<nextToken(nextToken(v.p)),
                               Append(values, v.node.Expression)>>)

parseBlockStatement(q) ==
    LET r == invoke("parseBlockStatements", <<nextToken(q), <<>>>>)
    IN  R(r.p, [kind |-> "BlockStatement", Token |-> curToken(q),
                Statements |-> r.node, RBraceToken |-> curToken(r.p)])

\* the loop of parseBlockStatement
parseBlockStatements(q, stmts) ==
    IF curTokenIs(q, "RBRACE") THEN R(q, stmts)
    ELSE LET s == invoke("parseStatement", <<q>>)
             stmts1 == IF s.node # Absent THEN Append(stmts, s.node) ELSE stmts
         IN  IF peekTokenIs(s.p, "EOF") THEN R(s.p, stmts1)
             ELSE invoke("parseBlockStatements", <<nextToken(s.p), stmts1>>)

parseExpressionStatement(q) ==
    LET e == invoke("parseExpression", <<q, LOWEST>>)
        q1 == IF peekTokenIs(e.p, "SEMICOLON") THEN nextToken(e.p) ELSE e.p
    IN  R(q1, [kind |-> "ExpressionStatement", Token |-> curToken(q),
               Expression |-> e.node])

parseStructStatement(q) ==
    LET q1 == nextToken(q)
        lb == expectPeek(q1, "LBRACE")
    IN  IF ~lb.node THEN R(lb.p, Absent)
        ELSE LET block == invoke("parseBlockStatement", <<lb.p>>)
             IN  R(block.p, [kind |-> "StructStatement", Token |-> curToken(q),
                             Name |-> curToken(q1).Literal, Block |-> block.node,
                             RBraceToken |-> curToken(block.p)])

-----------------------------------------------------------------------------
(* import.  A path is the sequence of its segments; the file system fs is  *)
(* [files |-> the lexemes of each existing file (by path, less ".mp"),     *)
(*  cwd |-> os.Getwd(), root |-> $MAGPIE_ROOT (<<>> when unset)].          *)

\* the nesting of importing parsers at which the goroutine stack is exhausted
MaxImportDepth == 3

\* filepath.Base of the slash-joined segments
RECURSIVE Base(_)
Base(path) ==
    IF path[Len(path)] # "" THEN path[Len(path)]
    ELSE IF Len(path) = 1 THEN "."
    ELSE IF \A i \in 1..Len(path) : path[i] = "" THEN "/"
    ELSE Base(SubSeq(path, 1, Len(path) - 1))

\* filepath.Dir of a file name
Dir(file) == SubSeq(file, 1, Len(file) - 1)

\* the loop of parseImportStatement that collects the dot-separated segments
RECURSIVE parseImportPath(_, _)
parseImportPath(q, paths) ==
    IF peekTokenIs(q, "DOT")
    THEN LET q1 == nextToken(nextToken(q))
         IN  parseImportPath(q1, Append(paths, curToken(q1).Literal))
    ELSE R(q, paths)

recordStatement(prog, stmt) ==
    IF stmt = Absent THEN prog
    ELSE IF stmt.kind = "ImportStatement"
    THEN IF stmt.ImportPath \in DOMAIN prog.Imports THEN prog
         ELSE [prog EXCEPT !.Imports = (stmt.ImportPath :> stmt) @@ @]
    ELSE [prog EXCEPT !.Statements = Append(@, stmt)]

\* The whole of ParseProgram, as the nested parser of an import runs it:
\* the node is the Program returned, Absent after a recovered panic.
ParseProgram(q) == invoke("ParseProgramLoop", <<q, [Statements |-> <<>>, Imports |-> <<>>]>>)

ParseProgramLoop(q, prog) ==
    IF curToken(q).Type # "EOF"
    THEN LET s == invoke("parseStatement", <<q>>)
         IN  IF halted(s.p) THEN R(s.p, Absent)
             ELSE invoke("ParseProgramLoop", <<nextToken(s.p), recordStatement(prog, s.node)>>)
    ELSE R(q, prog)

\* getImportedStatements putting the nested parser's entries before the importer's
getImportedStatementsNestedFirst(q, importpath) ==
    LET path == IF q.l.Filename = <<>> THEN fs.cwd ELSE Dir(q.l.Filename)
        here == path \o importpath
        there == fs.root \o importpath
        found == here \in DOMAIN fs.files
                 \/ (fs.root # <<>> /\ there \in DOMAIN fs.files)
        fn == IF here \in DOMAIN fs.files THEN here ELSE there
    IN  IF ~found
        THEN R(q, [err |-> TRUE, program |-> Absent])
        ELSE IF q.depth >= MaxImportDepth
        THEN R(IF halted(q) THEN q ELSE [q EXCEPT !.fault = "fatal"],
               [err |-> FALSE, program |-> Absent])
        ELSE
        LET ps == [NewParser(NewLexer(fn, fs.files[fn])) EXCEPT !.depth = q.depth + 1]
            parsed == invoke("ParseProgram", <<ps>>)
        IN  IF parsed.p.fault = "fatal"
            THEN R(IF halted(q) THEN q ELSE [q EXCEPT !.fault = "fatal"],
                   [err |-> FALSE, program |-> Absent])
            ELSE IF halted(q) \/ Len(parsed.p.errors) = 0
            THEN R(q, [err |-> FALSE, program |-> parsed.node])
            ELSE R([q EXCEPT !.errors = parsed.p.errors \o @,
                             !.errorLines = parsed.p.errorLines \o @],
                   [err |-> FALSE, program |-> parsed.node])

\* Returns [err, program]; err carries the position of the error message.
getImportedStatements(q, importpath) ==
    LET path == IF q.l.Filename = <<>> THEN fs.cwd ELSE Dir(q.l.Filename)
        here == path \o importpath
        there == fs.root \o importpath
        found == here \in DOMAIN fs.files
                 \/ (fs.root # <<>> /\ there \in DOMAIN fs.files)
        fn == IF here \in DOMAIN fs.files THEN here ELSE there
    IN  IF ~found
        THEN R(q, [err |-> TRUE, program |-> Absent])
        ELSE IF q.depth >= MaxImportDepth
        THEN R(IF halted(q) THEN q ELSE [q EXCEPT !.fault = "fatal"],
               [err |-> FALSE, program |-> Absent])
        ELSE
        LET ps == [NewParser(NewLexer(fn, fs.files[fn])) EXCEPT !.depth = q.depth + 1]
            parsed == invoke("ParseProgram", <<ps>>)
        IN  IF parsed.p.fault = "fatal"
            THEN R(IF halted(q) THEN q ELSE [q EXCEPT !.fault = "fatal"],
                   [err |-> FALSE, program |-> Absent])
            ELSE IF halted(q) \/ Len(parsed.p.errors) = 0
            THEN R(q, [err |-> FALSE, program |-> parsed.node])
            ELSE R([q EXCEPT !.errors = @ \o parsed.p.errors,
                             !.errorLines = @ \o parsed.p.errorLines],
                   [err |-> FALSE, program |-> parsed.node])

\* parseImportStatement leaving out the import of a file by itself
parseImportStatementNoCycle(q) ==
    LET q1 == nextToken(q)
        paths == parseImportPath(q1, <<curToken(q1).Literal>>)
        stmt == [kind |-> "ImportStatement", Token |-> curToken(q),
                 ImportPath |-> Base(paths.node), Program |-> Absent]
        got == invoke("getImportedStatements", <<paths.p, paths.node>>)
    IN  IF q.l.Filename # <<>> /\ Dir(q.l.Filename) \o paths.node = q.l.Filename
        THEN R(paths.p, stmt)
        ELSE IF got.node.err
        THEN R(addError(got.p, "no file or directory", curToken(got.p).Pos,
                        Sline(curToken(got.p).Pos)), stmt)
        ELSE R(IF peekTokenIs(got.p, "SEMICOLON") THEN nextToken(got.p) ELSE got.p,
               [stmt EXCEPT !.Program = got.node.program])

parseImportStatement(q) ==
    LET q1 == nextToken(q)
        paths == parseImportPath(q1, <<curToken(q1).Literal>>)
        stmt == [kind |-> "ImportStatement", Token |-> curToken(q),
                 ImportPath |-> Base(paths.node), Program |-> Absent]
        got == invoke("getImportedStatements", <<paths.p, paths.node>>)
    IN  IF got.node.err
        THEN R(addError(got.p, "no file or directory", curToken(got.p).Pos,
                        Sline(curToken(got.p).Pos)), stmt)
        ELSE R(IF peekTokenIs(got.p, "SEMICOLON") THEN nextToken(got.p) ELSE got.p,
               [stmt EXCEPT !.Program = got.node.program])

\* p.f(a[1], ...): the call of the parse function named f.  Every call of one
\* parse function by another is written through invoke, which gives the
\* mutual recursion of the parser a single entry.
invoke(f, a) ==
    CASE f = "parseStatement" -> parseStatement(a[1])
      [] f = "parseLetStatement" -> parseLetStatement(a[1], a[2])
      [] f = "parseLetNames" -> parseLetNames(a[1], a[2], a[3])
      [] f = "parseLetValues" -> parseLetValues(a[1], a[2])
      [] f = "parseReturnStatement" -> parseReturnStatement(a[1])
      [] f = "parseReturnValues" -> parseReturnValues(a[1], a[2])
      [] f = "parseBlockStatement" -> parseBlockStatement(a[1])
      [] f = "parseBlockStatements" -> parseBlockStatements(a[1], a[2])
      [] f = "parseExpressionStatement" -> parseExpressionStatement(a[1])
      [] f = "parseExpression" -> parseExpression(a[1], a[2])
      [] f = "parseExpressionInfixes" -> parseExpressionInfixes(a[1], a[2], a[3])
      [] f = "prefixParseFns" -> prefixParseFns(a[1])
      [] f = "infixParseFns" -> infixParseFns(a[1], a[2])
      [] f = "parseAssignExpression" -> parseAssignExpression(a[1], a[2])
      [] f = "parsePrefixExpression" -> parsePrefixExpression(a[1])
      [] f = "parseInfixExpression" -> parseInfixExpression(a[1], a[2])
      [] f = "parseGroupedExpression" -> parseGroupedExpression(a[1])
      [] f = "parseTupleExpression" -> parseTupleExpression(a[1], a[2], a[3])
      [] f = "parseTupleMembers" -> parseTupleMembers(a[1], a[2], a[3], a[4])
      [] f = "parseArrayLiteral" -> parseArrayLiteral(a[1])
      [] f = "parseExpressionList" -> parseExpressionList(a[1], a[2])
      [] f = "parseExpressionListRest" -> parseExpressionListRest(a[1], a[2])
      [] f = "parseHashLiteral" -> parseHashLiteral(a[1])
      [] f = "parseHashPairs" -> parseHashPairs(a[1], a[2])
      [] f = "parseFunctionLiteral" -> parseFunctionLiteral(a[1])
      [] f = "parseCallExpression" -> parseCallExpression(a[1], a[2])
      [] f = "parseIndexExpression" -> parseIndexExpression(a[1], a[2])
      [] f = "parseIfExpression" -> parseIfExpression(a[1])
      [] f = "parseConditionalExpressions" -> parseConditionalExpressions(a[1])
      [] f = "parseElseParts" -> parseElseParts(a[1], a[2])
      [] f = "parseConditionalExpression" -> parseConditionalExpression(a[1])
      [] f = "parseMethodCallExpression" -> parseMethodCallExpression(a[1], a[2])
      [] f = "parseDoLoopExpression" -> parseDoLoopExpression(a[1])
      [] f = "parseWhileLoopExpression" -> parseWhileLoopExpression(a[1])
      [] f = "parseForLoopExpression" -> parseForLoopExpression(a[1])
      [] f = "parseCForLoopExpression" -> parseCForLoopExpression(a[1], a[2])
      [] f = "parseForEachArrayExpression" -> parseForEachArrayExpression(a[1], a[2], a[3])
      [] f = "parseForEachMapExpression" -> parseForEachMapExpression(a[1], a[2], a[3])
      [] f = "parseForEverLoopExpression" -> parseForEverLoopExpression(a[1], a[2])
      [] f = "parseStructStatement" -> parseStructStatement(a[1])
      [] f = "parseSwitchExpression" -> parseSwitchExpression(a[1])
      [] f = "parseSwitchCases" -> parseSwitchCases(a[1], a[2], a[3], a[4])
      [] f = "parseCaseExprs" -> parseCaseExprs(a[1], a[2])
      [] f = "parseImportStatement" -> parseImportStatement(a[1])
      [] f = "getImportedStatements" -> getImportedStatements(a[1], a[2])
      [] f = "ParseProgram" -> ParseProgram(a[1])
      [] f = "ParseProgramLoop" -> ParseProgramLoop(a[1], a[2])

-----------------------------------------------------------------------------
(* The source texts the parser is run on.                                  *)

literals ==
    ("PLUS" :> "+") @@ ("MINUS" :> "-") @@ ("MULTIPLY" :> "*") @@
    ("DIVIDE" :> "/") @@ ("MOD" :> "%") @@ ("POWER" :> "**") @@
    ("INCREMENT" :> "++") @@ ("DECREMENT" :> "--") @@ ("LPAREN" :> "(") @@
    ("RPAREN" :> ")") @@ ("ASSIGN" :> "=") @@ ("SEMICOLON" :> ";") @@
    ("COLON" :> ":") @@ ("COMMA" :> ",") @@ ("DOT" :> ".") @@ ("LBRACE" :> "{") @@
    ("RBRACE" :> "}") @@ ("BANG" :> "!") @@ ("LBRACKET" :> "[") @@
    ("RBRACKET" :> "]") @@ ("LT" :> "<") @@ ("LE" :> "<=") @@ ("GT" :> ">") @@
    ("GE" :> ">=") @@ ("EQ" :> "==") @@ ("NEQ" :> "!=") @@ ("AND" :> "&&") @@
    ("OR" :> "||") @@ ("MATCH" :> "=~") @@ ("NOTMATCH" :> "!~") @@
    ("TRUE" :> "true") @@ ("FALSE" :> "false") @@ ("NIL" :> "nil") @@
    ("LET" :> "let") @@ ("RETURN" :> "return") @@ ("FUNCTION" :> "fn") @@
    ("IF" :> "if") @@ ("ELSE" :> "else") @@ ("WHILE" :> "while") @@
    ("DO" :> "do") @@ ("FOR" :> "for") @@ ("IN" :> "in") @@ ("BREAK" :> "break") @@
    ("CONTINUE" :> "continue") @@ ("SWITCH" :> "switch") @@ ("CASE" :> "case") @@
    ("DEFAULT" :> "default") @@ ("FALLTHROUGH" :> "fallthrough") @@
    ("IMPORT" :> "import") @@ ("STRUCT" :> "struct")

K(type) == Lx(type, literals[type])

Id(name) == Lx("IDENTIFIER", name)

Num(lit) == Lx("NUMBER", lit)

\* the sequences of at most n elements of S
SeqsUpTo(S, n) == UNION {[1..k -> S] : k \in 0..n}

RECURSIVE Flatten(_)
Flatten(ss) == IF ss = <<>> THEN <<>> ELSE Head(ss) \o Flatten(Tail(ss))

\* the token types handled by parseInfixExpression
BinaryOperators ==
    {"PLUS", "MINUS", "MULTIPLY", "DIVIDE", "MOD", "POWER", "LT", "LE", "GT", "GE",
     "EQ", "NEQ", "AND", "OR", "MATCH", "NOTMATCH"}

MaxChain == 4
MaxTuple == 3
MaxCases == 3
MaxImports == 3
MaxTokens == 3
MaxIfParts == 3

identifierOperands == [i \in 1..7 |-> Id(<<"a", "b", "c", "d", "e", "f", "g">>[i])]

numberOperands == [i \in 1..7 |-> Num(decimalDigits[i])]

\* x1 op1 x2 op2 ... : the operands xs joined by the operators ops
RECURSIVE InfixLexemes(_, _, _)
InfixLexemes(xs, ops, i) ==
    IF i > Len(ops) THEN <<xs[i]>>
    ELSE <<xs[i], K(ops[i])>> \o InfixLexemes(xs, ops, i + 1)

InfixSources ==
    {[form |-> "infix", operands |-> xs, ops |-> ops,
      lexemes |-> InfixLexemes(xs, ops, 1)] :
        xs \in {identifierOperands, numberOperands, <<Num("2"), Num("3"), Num("2")>>},
        ops \in [1..2 -> BinaryOperators]}
    \cup {[form |-> "infix", operands |-> identifierOperands, ops |-> ops,
           lexemes |-> InfixLexemes(identifierOperands, ops, 1)] :
            ops \in SeqsUpTo({"POWER", "MULTIPLY", "PLUS"}, MaxChain) \ {<<>>}}

\* the members a parenthesised form is written with, and their rendering
Elems ==
    {[lexemes |-> <<Id("a")>>, str |-> "a"],
     [lexemes |-> <<Num("1")>>, str |-> "1"],
     [lexemes |-> <<Id("a"), K("PLUS"), Num("2")>>, str |-> "(a + 2)"]}

RECURSIVE CommaSeparated(_)
CommaSeparated(ms) ==
    IF ms = <<>> THEN <<>>
    ELSE IF Len(ms) = 1 THEN ms[1].lexemes
    ELSE ms[1].lexemes \o <<K("COMMA")>> \o CommaSeparated(Tail(ms))

\* '(' members [','] ')' then rest
ParenSources ==
    {[form |-> "paren", members |-> ms, trailing |-> tr, rest |-> rest,
      lexemes |-> <<K("LPAREN")>> \o CommaSeparated(ms)
                  \o (IF tr THEN <<K("COMMA")>> ELSE <<>>) \o <<K("RPAREN")>> \o rest] :
        ms \in SeqsUpTo(Elems, MaxTuple), tr \in BOOLEAN,
        rest \in {<<>>, <<K("SEMICOLON"), Id("z")>>}}

\* the headers of the loop forms; ok says that the parser accepts the header
CForHeaders ==
    {[name |-> "cfor", init |-> i, cond |-> c, update |-> u, placeholder |-> ph,
      ok |-> (u \/ ph),
      lexemes |-> <<K("FOR"), K("LPAREN")>>
                  \o (IF i THEN <<Id("i")>> ELSE <<>>) \o <<K("SEMICOLON")>>
                  \o (IF c THEN <<Id("c")>> ELSE <<>>) \o <<K("SEMICOLON")>>
                  \o (IF u THEN <<Id("u")>> ELSE IF ph THEN <<K("SEMICOLON")>> ELSE <<>>)
                  \o <<K("RPAREN"), K("LBRACE")>>] :
        i \in BOOLEAN, c \in BOOLEAN, u \in BOOLEAN, ph \in BOOLEAN} \
    {h \in [name : {"cfor"}, init : BOOLEAN, cond : BOOLEAN, update : {TRUE},
            placeholder : {TRUE}, ok : BOOLEAN, lexemes : {<<>>}] : TRUE}

ForMapHeaders ==
    {[name |-> "formap", key |-> k, value |-> v, ok |-> ~(k = "_" /\ v = "_"),
      lexemes |-> <<K("FOR"), Lx("IDENTIFIER", k), K("COMMA"), Lx("IDENTIFIER", v),
                    K("IN"), Id("y"), K("LBRACE")>>] :
        k \in {"k", "_"}, v \in {"v", "_"}}

LoopHeaders ==
    {[name |-> "do", ok |-> TRUE, lexemes |-> <<K("DO"), K("LBRACE")>>],
     [name |-> "while", ok |-> TRUE, lexemes |-> <<K("WHILE"), Id("c"), K("LBRACE")>>],
     [name |-> "while", ok |-> TRUE,
      lexemes |-> <<K("WHILE"), K("LPAREN"), Id("c"), K("RPAREN"), K("LBRACE")>>],
     [name |-> "forever", ok |-> TRUE, lexemes |-> <<K("FOR"), K("LBRACE")>>],
     [name |-> "forin", ok |-> TRUE,
      lexemes |-> <<K("FOR"), Id("x"), K("IN"), Id("y"), K("LBRACE")>>],
     [name |-> "while", ok |-> FALSE, lexemes |-> <<K("WHILE"), Id("c")>>],
     [name |-> "for", ok |-> FALSE, lexemes |-> <<K("FOR"), Num("1"), K("LBRACE")>>],
     [name |-> "forin", ok |-> FALSE,
      lexemes |-> <<K("FOR"), Id("x"), Id("y"), K("LBRACE")>>],
     [name |-> "cfor", ok |-> FALSE,
      lexemes |-> <<K("FOR"), K("LPAREN"), Id("i"), K("LBRACE")>>],
     [name |-> "do", ok |-> FALSE, lexemes |-> <<K("DO")>>]}
    \cup {h \in CForHeaders : ~(h.update /\ h.placeholder)} \cup ForMapHeaders

LoopBodies ==
    {<<>>, <<K("BREAK")>>, <<K("CONTINUE")>>, <<Id("a"), K("SEMICOLON"), K("BREAK")>>,
     <<K("FOR"), K("LBRACE"), K("CONTINUE"), K("RBRACE"), K("BREAK")>>,
     <<K("WHILE"), Id("c")>>}

\* header body '}' suffix
LoopSources ==
    {[form |-> "loop", header |-> h, body |-> b, suffix |-> sfx,
      lexemes |-> h.lexemes \o b \o <<K("RBRACE")>> \o sfx] :
        h \in LoopHeaders, b \in LoopBodies,
        sfx \in {<<>>, <<K("BREAK")>>, <<K("CONTINUE")>>}}
    \cup {[form |-> "jump", lexemes |-> <<K(t)>>] : t \in {"BREAK", "CONTINUE"}}

\* the entries of a switch: 'case' 1 '{' body '}' or 'default' '{' body '}'
CaseBodies ==
    {<<>>, <<K("FALLTHROUGH")>>, <<K("FALLTHROUGH"), Id("a")>>,
     <<Id("a"), K("FALLTHROUGH")>>}

CaseEntries == [default : BOOLEAN, body : CaseBodies]

EntryLexemes(e) ==
    (IF e.default THEN <<K("DEFAULT")>> ELSE <<K("CASE"), Num("1")>>)
    \o <<K("LBRACE")>> \o e.body \o <<K("RBRACE")>>

\* 'switch' x '{' entries '}' suffix
SwitchSources ==
    {[form |-> "switch", entries |-> es, suffix |-> sfx,
      lexemes |-> <<K("SWITCH"), Id("x"), K("LBRACE")>>
                  \o Flatten([i \in 1..Len(es) |-> EntryLexemes(es[i])])
                  \o <<K("RBRACE")>> \o sfx] :
        es \in SeqsUpTo(CaseEntries, MaxCases),
        sfx \in {<<>>, <<K("FALLTHROUGH")>>}}

\* switch expressions with a syntax error, then a 'fallthrough'
BadSwitchSources ==
    {[form |-> "badswitch", lexemes |-> bad \o <<K("FALLTHROUGH")>>] :
        bad \in {<<K("SWITCH"), K("SEMICOLON")>>,
                 <<K("SWITCH"), Id("x"), K("SEMICOLON")>>,
                 <<K("SWITCH"), Id("x"), K("LBRACE"), Id("a"), K("RBRACE")>>,
                 <<K("SWITCH"), Id("x"), K("LBRACE"), K("CASE"), Num("1"),
                   K("SEMICOLON")>>}}
    \cup {[form |-> "jump", lexemes |-> <<K("FALLTHROUGH")>>]}

\* import statements, and the files they name
ImportPaths ==
    {<<"a">>, <<"b">>, <<"a", "c">>, <<"b", "c">>, <<"m">>, <<"g">>, <<"e">>, <<"n">>}

RECURSIVE DottedPath(_)
DottedPath(path) ==
    IF Len(path) = 1 THEN <<Id(path[1])>>
    ELSE <<Id(path[1]), K("DOT")>> \o DottedPath(Tail(path))

ImportLexemes(i) ==
    <<K("IMPORT")>> \o DottedPath(i.path)
    \o (IF i.semicolon THEN <<K("SEMICOLON")>> ELSE <<>>)

ImportSources ==
    {[form |-> "import", imports |-> is, rest |-> rest,
      lexemes |-> Flatten([i \in 1..Len(is) |-> ImportLexemes(is[i])]) \o rest] :
        is \in {[i \in 1..Len(ps) |-> [path |-> ps[i], semicolon |-> semi]] :
                   ps \in SeqsUpTo(ImportPaths, MaxImports) \ {<<>>},
                   semi \in BOOLEAN},
        rest \in {<<>>, <<Id("z")>>}}

Files ==
    (<<"cwd", "a">> :> <<Id("x")>>)
    @@ (<<"cwd", "b">> :> <<K("BREAK"), K("SEMICOLON"), K("CONTINUE")>>)
    @@ (<<"cwd", "a", "c">> :> <<Num("1")>>)
    @@ (<<"cwd", "b", "c">> :> <<Num("2")>>)
    @@ (<<"cwd", "e">> :> <<K("RPAREN"), K("BREAK"), K("ASSIGN"), Num("1")>>)
    @@ (<<"cwd", "n">> :> <<K("IMPORT"), Id("b"), K("CONTINUE")>>)
    @@ (<<"root", "g">> :> <<Id("y")>>)
    @@ (<<"cwd", "s">> :> <<K("IMPORT"), Id("s")>>)
    @@ (<<"cwd", "p">> :> <<Id("x"), K("IMPORT"), Id("q")>>)
    @@ (<<"cwd", "q">> :> <<K("IMPORT"), Id("p"), Id("y")>>)

FileSystems ==
    {[files |-> Files, cwd |-> <<"cwd">>, root |-> root] :
        root \in {<<>>, <<"root">>}}

\* a source text that imports a file on an import cycle: s imports itself,
\* p and q import each other
CyclePaths == {<<"s">>, <<"p">>, <<"q">>}

CycleSources ==
    {[form |-> "cycle", path |-> c, before |-> b,
      lexemes |-> b \o <<K("IMPORT")>> \o DottedPath(c) \o <<Id("z")>>] :
        c \in CyclePaths, b \in {<<>>, <<Id("a")>>}}

\* an if chain: 'if' c '{' body '}' { 'else' 'if' c '{' body '}' } followed by
\* nothing, by 'else' '{' e '}', by that and a second 'else' '{' f '}', or by
\* an 'else' that neither 'if' nor '{' follows
IfPart(body) == <<K("IF"), Id("c"), K("LBRACE")>> \o body \o <<K("RBRACE")>>

RECURSIVE IfParts(_, _)
IfParts(n, body) ==
    IF n = 1 THEN IfPart(body)
    ELSE IfParts(n - 1, body) \o <<K("ELSE")>> \o IfPart(body)

IfTails ==
    ("none" :> <<>>)
    @@ ("else" :> <<K("ELSE"), K("LBRACE"), Id("e"), K("RBRACE")>>)
    @@ ("elseelse" :> <<K("ELSE"), K("LBRACE"), Id("e"), K("RBRACE"),
                        K("ELSE"), K("LBRACE"), Id("f"), K("RBRACE")>>)
    @@ ("bad" :> <<K("ELSE"), Id("x")>>)

IfSources ==
    {[form |-> "if", parts |-> n, body |-> b, tail |-> t,
      lexemes |-> IfParts(n, b) \o IfTails[t]] :
        n \in 1..MaxIfParts, b \in {<<>>, <<Id("b")>>}, t \in DOMAIN IfTails}

\* every short token stream over a few lexemes
Alphabet ==
    {Id("a"), Id("self"), Num("1"), K("ASSIGN"), K("COMMA"), K("LPAREN"),
     K("RPAREN"), K("LBRACE"), K("RBRACE"), K("BREAK"), K("PLUS"), K("LET")}

TokenSources ==
    {[form |-> "tokens", lexemes |-> t] : t \in SeqsUpTo(Alphabet, MaxTokens)}

Sources ==
    InfixSources \cup ParenSources \cup LoopSources \cup SwitchSources
    \cup BadSwitchSources \cup ImportSources \cup CycleSources \cup IfSources \cup TokenSources

-----------------------------------------------------------------------------------------------------------------------------------------------------
(* The span of a node: Pos and End of the expression nodes and of the      *)
(* expression statement.                                                   *)

RECURSIVE Pos(_)
Pos(n) ==
    CASE n.kind = "ExpressionStatement" -> n.Token.Pos
      [] n.kind = "InfixExpression" -> n.Token.Pos
      [] n.kind = "PrefixExpression" -> n.Token.Pos
      [] n.kind = "NumberLiteral" -> n.Token.Pos
      [] n.kind = "Identifier" -> n.Token.Pos

RECURSIVE End(_)
End(n) ==
    CASE n.kind = "ExpressionStatement" -> End(n.Expression)
      [] n.kind = "InfixExpression" -> End(n.Right)
      [] n.kind = "PrefixExpression" -> End(n.Right)
      [] n.kind = "NumberLiteral" ->
            Position(n.Token.Pos.Filename, n.Token.Pos.Line,
                     n.Token.Pos.Col + RuneCountInString(n.Token.Literal))
      [] n.kind = "Identifier" ->
            Position(n.Token.Pos.Filename, n.Token.Pos.Line,
                     n.Token.Pos.Col + RuneCountInString(n.Value))

-----
(* ParseProgram as a state machine.                                        *)

Init ==
    /\ src \in Sources
    /\ fs \in IF src.form \in {"import", "cycle"} THEN FileSystems
              ELSE {[files |-> Files, cwd |-> <<"cwd">>, root |-> <<>>]}
    /\ pc = "loop"
    /\ p = NewParser(NewLexer(<<>>, src.lexemes))
    /\ program = [Statements |-> <<>>, Imports |-> <<>>]
    /\ statement = Absent
    /\ ret = Absent
    /\ stdout = <<>>

\* The loop test holds: stmt := p.parseStatement() and the statement is recorded.
\* A panic starts unwinding; an exhausted stack ends the process.
ParseProgramStatement ==
    /\ pc = "loop"
    /\ curToken(p).Type # "EOF"
    /\ LET s == invoke("parseStatement", <<p>>)
       IN  /\ p' = s.p
           /\ IF s.p.fault = "panic"
              THEN pc' = "panicking" /\ UNCHANGED <<program, statement>>
              ELSE IF s.p.fault = "fatal"
              THEN pc' = "crashed" /\ UNCHANGED <<program, statement>>
              ELSE /\ pc' = "parsed"
                   /\ statement' = s.node
                   /\ program' = recordStatement(program, s.node)
    /\ UNCHANGED <<src, fs, ret, stdout>>

\* the loop of ParseProgram without the p.nextToken() that ends its body
ParseProgramNextTokenSkipped ==
    /\ pc = "parsed"
    /\ pc' = "loop"
    /\ UNCHANGED <<src, fs, p, program, statement, ret, stdout>>

\* p.nextToken() at the end of the loop body
ParseProgramNextToken ==
    /\ pc = "parsed"
    /\ p' = nextToken(p)
    /\ pc' = "loop"
    /\ UNCHANGED <<src, fs, program, statement, ret, stdout>>

\* The loop test fails: return program.
ParseProgramReturn ==
    /\ pc = "loop"
    /\ curToken(p).Type = "EOF"
    /\ ret' = program
    /\ pc' = "done"
    /\ UNCHANGED <<src, fs, p, program, statement, stdout>>

\* The deferred function recovers the panic and prints; ParseProgram, whose
\* result is unnamed, returns the zero value nil.
ParseProgramRecover ==
    /\ pc = "panicking"
    /\ stdout' = Append(stdout, [text |-> "Syntax Error", pos |-> TokAt(p.l, p.cur).Pos])
    /\ ret' = Absent
    /\ pc' = "done"
    /\ UNCHANGED <<src, fs, p, program, statement>>

Next ==
    \/ ParseProgramStatement
    \/ ParseProgramNextToken
    \/ ParseProgramReturn
    \/ ParseProgramRecover

Spec == Init /\ [][Next]_vars

-----------------------------------------------------------------------------
(* Properties of the parser.                                               *)

\* The tree of an expression without its tokens: an infix expression is
\* <<left, operator, right>>, a leaf is <<its rendering>>.
RECURSIVE Shape(_)
Shape(n) ==
    CASE n.kind = "InfixExpression" -> <<Shape(n.Left), n.Operator, Shape(n.Right)>>
      [] n.kind \in {"Identifier", "NumberLiteral"} -> <<String(n)>>
      [] OTHER -> <<n.kind, n.kind>>

Leaf(i) == <<src.operands[i].Literal>>

Op(i) == literals[src.ops[i]]

\* the source text is one expression statement, and it has just been parsed
FirstParsed == pc = "parsed" /\ Len(program.Statements) = 1 /\ p.cur >= Len(src.lexemes)

TwoOperators == src.form = "infix" /\ Len(src.ops) = 2

\* C1: in 'a op1 b op2 c' the operator of the strictly higher precedence level
\* binds first, whichever side it is on: with op2 higher the tree is
\* Infix(a, op1, Infix(b, op2, c)), with op1 higher Infix(Infix(a, op1, b), op2, c);
\* '1 + 2 * 3' renders as "(1 + (2 * 3))".
C1_PrecedenceGroups ==
    (FirstParsed /\ TwoOperators) =>
        /\ precedences(src.ops[1]) < precedences(src.ops[2]) =>
              /\ Shape(statement.Expression)
                   = <<Leaf(1), Op(1), <<Leaf(2), Op(2), Leaf(3)>>>>
              /\ p.errors = <<>>
        /\ precedences(src.ops[1]) > precedences(src.ops[2]) =>
              /\ Shape(statement.Expression)
                   = <<<<Leaf(1), Op(1), Leaf(2)>>, Op(2), Leaf(3)>>
              /\ p.errors = <<>>
        /\ (src.ops = <<"PLUS", "MULTIPLY">> /\ src.operands = numberOperands) =>
              String(statement.Expression) = "(1 + (2 * 3))"

C1_Witness ==
    /\ FirstParsed /\ TwoOperators
    /\ src.ops = <<"PLUS", "MULTIPLY">> /\ src.operands = numberOperands
    /\ String(statement.Expression) = "(1 + (2 * 3))"

\* x_i ** (x_i+1 ** ( ... ** x_n))
RECURSIVE RightNested(_)
RightNested(i) ==
    IF i > Len(src.ops) THEN Leaf(i) ELSE <<Leaf(i), Op(i), RightNested(i + 1)>>

PowerChain == src.form = "infix" /\ \A i \in 1..Len(src.ops) : src.ops[i] = "POWER"

\* C2: a chain x1 ** x2 ** ... ** xn of any length parses with every '**'
\* taking the whole rest of the chain as its right operand;
\* '2 ** 3 ** 2' renders as "(2 ** (3 ** 2))".
C2_PowerRightAssociative ==
    (FirstParsed /\ PowerChain) =>
        /\ Shape(statement.Expression) = RightNested(1)
        /\ p.errors = <<>>
        /\ src.operands = <<Num("2"), Num("3"), Num("2")>> =>
              String(statement.Expression) = "(2 ** (3 ** 2))"

C2_Witness ==
    /\ FirstParsed /\ PowerChain /\ Len(src.ops) = MaxChain
    /\ Shape(statement.Expression) = RightNested(1)

\* C3: in 'a op1 b op2 c' with op1 and op2 of the same precedence level and op2
\* not '**', the tree is Infix(Infix(a, op1, b), op2, c).
C3_OthersLeftAssociative ==
    (FirstParsed /\ TwoOperators
     /\ precedences(src.ops[1]) = precedences(src.ops[2]) /\ src.ops[2] # "POWER") =>
        Shape(statement.Expression) = <<<<Leaf(1), Op(1), Leaf(2)>>, Op(2), Leaf(3)>>

\* the parenthesised form is a whole statement, and it has just been parsed
ParenParsed ==
    /\ src.form = "paren"
    /\ pc = "parsed" /\ Len(program.Statements) = 1 /\ statement = program.Statements[1]

\* the index of the closing ')' in the source text
ClosingParen == Len(src.lexemes) - Len(src.rest)

IsTupleOf(n, ms) ==
    /\ n.kind = "TupleLiteral"
    /\ Len(n.Members) = Len(ms)
    /\ \A i \in 1..Len(ms) : String(n.Members[i]) = ms[i].str

\* C4: '()' is a tuple of no member, '(e)' is e itself, '(e,)' is a tuple of
\* the one member e, '(e1, ..., en)' with n >= 2 is a tuple of these n members
\* in order; none records an error, and each leaves the parser on its ')'
\* (a ';' that ends the statement is then taken by the statement).
C4_ParenthesisForms ==
    (ParenParsed /\ (src.trailing => Len(src.members) = 1)) =>
        /\ (src.members = <<>>) => IsTupleOf(statement.Expression, <<>>)
        /\ (Len(src.members) = 1 /\ ~src.trailing) =>
              /\ statement.Expression.kind # "TupleLiteral"
              /\ String(statement.Expression) = src.members[1].str
        /\ (Len(src.members) = 1 /\ src.trailing) =>
              IsTupleOf(statement.Expression, src.members)
        /\ (Len(src.members) >= 2) => IsTupleOf(statement.Expression, src.members)
        /\ p.errors = <<>> /\ p.errorLines = <<>>
        /\ p.l.toks[ClosingParen].Type = "RPAREN"
        /\ p.cur = ClosingParen + (IF src.rest = <<>> THEN 0 ELSE 1)

C4_Witness ==
    /\ ParenParsed /\ Len(src.members) = 1 /\ src.trailing /\ src.rest = <<>>
    /\ IsTupleOf(statement.Expression, src.members)
    /\ curToken(p).Type = "RPAREN"

JumpMessage(t) ==
    IF t = "BREAK" THEN "'break' outside of loop context"
    ELSE "'continue' outside of loop context"

LoopKinds ==
    {"DoLoop", "WhileLoop", "ForEverLoop", "CForLoop", "ForEachArrayLoop",
     "ForEachMapLoop"}

\* the next top-level statement is a lone 'break' or 'continue', and
\* loopDepth is 0
JumpAhead ==
    /\ pc = "loop"
    /\ curToken(p).Type \in {"BREAK", "CONTINUE"}
    /\ p.loopDepth = 0
    /\ peekToken(p).Type \notin infixRegistered

\* the source text starts with a loop whose header is well formed and whose
\* body holds no broken inner loop, and that loop has just been parsed
LoopParsed ==
    /\ src.form = "loop" /\ src.header.ok
    /\ src.body # <<K("WHILE"), Id("c")>>
    /\ pc = "parsed" /\ Len(program.Statements) = 1

BodyOf(loop) == loop.Block.Statements

\* C5: a 'break' or 'continue' parsed at loopDepth 0 records exactly one error,
\* "'break' (or 'continue') outside of loop context", at its own position, and
\* yields no expression; in the body of every loop form (do, while, bare for,
\* C-style for, for-in, paired for-in, also nested) it records no error and is
\* a Break or Continue node.
C5_JumpsNeedLoop ==
    /\ [][JumpAhead =>
            /\ pc' = "parsed"
            /\ p'.errors = Append(p.errors, [text |-> JumpMessage(curToken(p).Type),
                                             pos |-> curToken(p).Pos])
            /\ Len(p'.errorLines) = Len(p.errorLines) + 1
            /\ statement'.Expression = Absent]_vars
    /\ [](LoopParsed =>
            /\ p.errors = <<>>
            /\ statement.Expression.kind \in LoopKinds
            /\ src.body = <<K("BREAK")>> =>
                  BodyOf(statement.Expression)[1].Expression.kind = "BreakExpression"
            /\ src.body = <<K("CONTINUE")>> =>
                  BodyOf(statement.Expression)[1].Expression.kind = "ContinueExpression"
            /\ Len(src.body) = 3 =>
                  BodyOf(statement.Expression)[2].Expression.kind = "BreakExpression"
            /\ Len(src.body) = 5 =>
                  /\ BodyOf(BodyOf(statement.Expression)[1].Expression)[1].Expression.kind
                       = "ContinueExpression"
                  /\ BodyOf(statement.Expression)[2].Expression.kind = "BreakExpression")

C5_Witness ==
    /\ src.form = "loop" /\ src.header.ok /\ src.header.name = "cfor"
    /\ src.body = <<K("BREAK")>> /\ src.suffix = <<K("BREAK")>>
    /\ pc = "parsed" /\ Len(program.Statements) = 2
    /\ statement.Expression = Absent
    /\ Len(p.errors) = 1 /\ p.errors[1].text = "'break' outside of loop context"

\* C6: loopDepth is 0 whenever the parser is between top-level statements:
\* every loop parse function, returning with a loop or (on a syntax error in
\* the header) with none, leaves loopDepth as it found it.
C6_LoopDepthBalanced == (pc \in {"loop", "parsed"}) => p.loopDepth = 0

NotLastStatement == "fallthrough can be used only as a last statement inside case clause"

FinalCase == "cannot fallthrough final case in switch"

\* a 'fallthrough' among the statements of entry e / before its last statement
HasFallthrough(e) == \E j \in 1..Len(e.body) : e.body[j].Type = "FALLTHROUGH"

FallthroughNotLast(e) == \E j \in 1..(Len(e.body) - 1) : e.body[j].Type = "FALLTHROUGH"

Defaults(es) == {i \in 1..Len(es) : es[i].default}

\* the source text starts with a switch, which has just been parsed
SwitchParsed == src.form = "switch" /\ pc = "parsed" /\ Len(program.Statements) = 1

NotLastViolated == \E i \in 1..Len(src.entries) : FallthroughNotLast(src.entries[i])

FinalCaseViolated == src.entries # <<>> /\ HasFallthrough(src.entries[Len(src.entries)])

\* C7: once the case list of a switch is parsed (at most one 'default'), a
\* 'fallthrough' before the last statement of its case block, or anywhere in
\* the last case, makes the switch record an error and yield no node; the
\* two violations have different messages; when every 'fallthrough' is the
\* last statement of a case that is not the last, no error is recorded.
C7_FallthroughPlacement ==
    (SwitchParsed /\ Cardinality(Defaults(src.entries)) <= 1) =>
        /\ (NotLastViolated \/ FinalCaseViolated) =>
              /\ statement.Expression = Absent
              /\ Len(p.errors) = 1 /\ Len(p.errorLines) = 1
              /\ p.errors[1].text \in {NotLastStatement, FinalCase}
        /\ (NotLastViolated /\ ~FinalCaseViolated) => p.errors[1].text = NotLastStatement
        /\ (FinalCaseViolated /\ ~NotLastViolated) => p.errors[1].text = FinalCase
        /\ NotLastStatement # FinalCase
        /\ (~NotLastViolated /\ ~FinalCaseViolated) =>
              /\ p.errors = <<>>
              /\ statement.Expression.kind = "SwitchExpression"
              /\ Len(statement.Expression.Cases) = Len(src.entries)

C7_Witness ==
    /\ SwitchParsed /\ Len(src.entries) = 2
    /\ src.entries[1] = [default |-> FALSE, body |-> <<Id("a"), K("FALLTHROUGH")>>]
    /\ src.entries[2] = [default |-> TRUE, body |-> <<K("FALLTHROUGH")>>]
    /\ Len(p.errors) = 1 /\ p.errors[1].text = FinalCase

\* C8: a 'fallthrough' that starts a top-level statement, so outside every
\* switch, records "'fallthrough' outside of switch context", whatever was
\* parsed before it.
C8_FallthroughNeedsSwitch ==
    [][(pc = "loop" /\ curToken(p).Type = "FALLTHROUGH") =>
          /\ Len(p'.errors) > Len(p.errors)
          /\ p'.errors[Len(p.errors) + 1]
               = [text |-> "'fallthrough' outside of switch context",
                  pos |-> curToken(p).Pos]]_vars

\* the index in the source text of the second 'default'
SecondDefault ==
    CHOOSE n \in 1..Len(src.lexemes) :
        /\ src.lexemes[n].Type = "DEFAULT"
        /\ Cardinality({m \in 1..(n - 1) : src.lexemes[m].Type = "DEFAULT"}) = 1

\* C9: a switch with more than one 'default' records the error "more than one
\* default are not allowed" at the position of the second 'default' token and
\* yields no switch expression; with exactly one 'default', in any position,
\* no such error is recorded (and no error at all when every 'fallthrough' is
\* well placed).
C9_DuplicateDefault ==
    SwitchParsed =>
        /\ Cardinality(Defaults(src.entries)) > 1 =>
              /\ statement.Expression = Absent
              /\ Len(p.errors) = 1 /\ Len(p.errorLines) = 1
              /\ p.errors[1] = [text |-> "more than one default are not allowed",
                                pos |-> p.l.toks[SecondDefault].Pos]
        /\ Cardinality(Defaults(src.entries)) = 1 =>
              /\ \A i \in 1..Len(p.errors) :
                    p.errors[i].text # "more than one default are not allowed"
              /\ (~NotLastViolated /\ ~FinalCaseViolated) =>
                    /\ p.errors = <<>>
                    /\ statement.Expression.kind = "SwitchExpression"
                    /\ \A i \in 1..Len(src.entries) :
                          statement.Expression.Cases[i].Default = src.entries[i].default

C9_Witness ==
    /\ SwitchParsed /\ Len(src.entries) = 3
    /\ Defaults(src.entries) = {1, 3}
    /\ statement.Expression = Absent
    /\ Len(p.errors) = 1 /\ p.errors[1].pos = p.l.toks[SecondDefault].Pos

\* the index in the source text of the 'import' of the i-th import statement
ImportToken(i) ==
    CHOOSE n \in 1..Len(src.lexemes) :
        /\ src.lexemes[n].Type = "IMPORT"
        /\ Cardinality({m \in 1..(n - 1) : src.lexemes[m].Type = "IMPORT"}) = i - 1

\* the import statements of the source text that name path
Occurrences(path) == {i \in 1..Len(src.imports) : src.imports[i].path = path}

First(S) == CHOOSE i \in S : \A j \in S : i <= j

\* the keys of the import map whose entry is an import statement of path
EntriesFor(imports, path) ==
    {k \in DOMAIN imports :
        \E i \in Occurrences(path) : imports[k].Token = p.l.toks[ImportToken(i)]}

\* C10: a path imported two or more times at the top level of a file has
\* exactly one entry in the import map of the returned Program, and that entry
\* is the import statement of the first occurrence.
C10_ImportedOnce ==
    (src.form = "import" /\ pc = "done" /\ ret # Absent) =>
        \A i \in 1..Len(src.imports) :
            LET path == src.imports[i].path
            IN  Cardinality(Occurrences(path)) >= 2 =>
                  /\ Cardinality(EntriesFor(ret.Imports, path)) = 1
                  /\ \A k \in EntriesFor(ret.Imports, path) :
                        ret.Imports[k].Token = p.l.toks[ImportToken(First(Occurrences(path)))]

\* ParseProgram is about to parse an import statement whose path an earlier
\* import statement of the same file already named.
RepeatedImportAhead ==
    /\ src.form = "import" /\ pc = "loop"
    /\ \E i \in 1..Len(src.imports) :
          /\ p.cur = ImportToken(i)
          /\ i # First(Occurrences(src.imports[i].path))

\* C11: an import statement whose path was already imported earlier in the
\* same file does not resolve and parse the imported file again, so it appends
\* nothing to the importer's errors and errorLines.
C11_RepeatedImportNotResolved ==
    [][(RepeatedImportAhead /\ ParseProgramStatement)
          => (p'.errors = p.errors /\ p'.errorLines = p.errorLines)]_vars

\* the file a dotted path of the top-level source text resolves to: the file
\* in the importing file's directory, else the one under the configured root
Resolves(path) ==
    \/ fs.cwd \o path \in DOMAIN fs.files
    \/ (fs.root # <<>> /\ fs.root \o path \in DOMAIN fs.files)

ResolvedFile(path) ==
    IF fs.cwd \o path \in DOMAIN fs.files THEN fs.cwd \o path ELSE fs.root \o path

\* the Program a nested parser makes of a file
ProgramOf(file) ==
    ParseProgram([NewParser(NewLexer(file, fs.files[file])) EXCEPT !.depth = 1]).node

\* C12: two top-level imports whose dotted paths resolve to different files
\* have two distinct entries in the import map of the returned Program, each
\* the import statement of its path with the Program parsed from its file.
C12_ImportMapKeyedByPath ==
    (src.form = "import" /\ pc = "done" /\ ret # Absent) =>
        \A i, j \in 1..Len(src.imports) :
            LET a == src.imports[i].path
                b == src.imports[j].path
            IN  (Resolves(a) /\ Resolves(b) /\ ResolvedFile(a) # ResolvedFile(b)) =>
                  \E ka, kb \in DOMAIN ret.Imports :
                      /\ ka # kb
                      /\ ka \in EntriesFor(ret.Imports, a)
                      /\ kb \in EntriesFor(ret.Imports, b)
                      /\ ret.Imports[ka].Program = ProgramOf(ResolvedFile(a))
                      /\ ret.Imports[kb].Program = ProgramOf(ResolvedFile(b))

BothDiscarded == "foreach map's key & map are both '_'"

\* the source text starts with a paired iteration 'for' k ',' v 'in' y '{'
\* body '}', whose parse has just returned
ForMapParsed ==
    /\ src.form = "loop" /\ src.header.name = "formap"
    /\ pc = "parsed" /\ Len(program.Statements) = 1

\* C13: in 'for' k ',' v 'in' y '{' body '}' the name '_' may stand for the key
\* or for the value but not for both: with both discarded exactly one error is
\* recorded, at the second '_', and there is no loop node; with at most one
\* discarded (and a well-formed body) no error is recorded and the node is a
\* ForEachMapLoop with the key and value names of the source text.
C13_DiscardNames ==
    ForMapParsed =>
        IF src.header.key = "_" /\ src.header.value = "_"
        THEN /\ statement.Expression = Absent
             /\ p.errors = <<[text |-> BothDiscarded, pos |-> p.l.toks[4].Pos]>>
             /\ p.errorLines = <<Sline(p.l.toks[4].Pos)>>
        ELSE src.body # <<K("WHILE"), Id("c")>> =>
                /\ p.errors = <<>> /\ p.errorLines = <<>>
                /\ statement.Expression.kind = "ForEachMapLoop"
                /\ statement.Expression.Key = src.header.key
                /\ statement.Expression.Value = src.header.value

C13_Witness ==
    /\ ForMapParsed
    /\ src.header.key = "_" /\ src.header.value = "_"
    /\ statement.Expression = Absent
    /\ Len(p.errors) = 1 /\ p.errors[1].text = BothDiscarded

\* the source text starts with a C-style loop 'for' '(' [i] ';' [c] ';' [u] ')'
\* '{' body '}' (with a third ';' before the ')' when placeholder holds) whose
\* body is well formed, and the parse of that statement has just returned
CForParsed ==
    /\ src.form = "loop" /\ src.header.name = "cfor" /\ "init" \in DOMAIN src.header
    /\ src.body # <<K("WHILE"), Id("c")>>
    /\ pc = "parsed" /\ Len(program.Statements) = 1

\* the clause node n is the identifier named, or absent when the clause is omitted
ClauseIs(n, present, name) ==
    IF present THEN n # Absent /\ n.kind = "Identifier" /\ n.Value = name
    ELSE n = Absent

\* no error is recorded and the loop holds exactly the clauses of the header
CForAsWritten ==
    /\ p.errors = <<>> /\ p.errorLines = <<>>
    /\ statement.Expression # Absent
    /\ IF ~src.header.init /\ ~src.header.cond /\ ~src.header.update
       THEN statement.Expression.kind = "ForEverLoop"
       ELSE /\ statement.Expression.kind = "CForLoop"
            /\ ClauseIs(statement.Expression.Init, src.header.init, "i")
            /\ ClauseIs(statement.Expression.Cond, src.header.cond, "c")
            /\ ClauseIs(statement.Expression.Update, src.header.update, "u")

\* C14 as stated: with two semicolons in the header, each of the eight
\* combinations of present and omitted init, cond and update parses without an
\* error into a CForLoop of exactly the clauses present, or into a ForEverLoop
\* when all three are omitted.
C14_TwoSemicolons == (CForParsed /\ ~src.header.placeholder) => CForAsWritten

\* C14 amended: each of the eight combinations parses without an error into a
\* CForLoop of exactly the clauses present (a ForEverLoop when all three are
\* omitted) provided an omitted update is written as a third ';' before the
\* ')'; with an omitted update and only two semicolons the header is refused
\* with an error and there is no loop node.
C14_CForClauses ==
    CForParsed =>
        IF src.header.update \/ src.header.placeholder
        THEN CForAsWritten
        ELSE statement.Expression = Absent /\ Len(p.errors) >= 1

C14_Witness ==
    /\ CForParsed
    /\ ~src.header.init /\ ~src.header.cond /\ ~src.header.update
    /\ src.header.placeholder
    /\ p.errors = <<>>
    /\ statement.Expression.kind = "ForEverLoop"

\* the index in the source text of the 'if' of the i-th part of the chain, and
\* of the token after the last part
IfToken(i) == (5 + Len(src.body)) * (i - 1) + 1

AfterParts == (5 + Len(src.body)) * src.parts

\* the source text is an if chain, and the parse of its first statement has
\* just returned
IfParsed == src.form = "if" /\ pc = "parsed" /\ Len(program.Statements) = 1

ElseMessage == "'else' part must be followed by a '{'."

\* C15: a well-formed chain of n 'if'/'else if' parts yields an IfExpression
\* with exactly n condition entries in source order (each with its condition
\* and its block) and records no error; it has an else block exactly when a
\* final 'else' '{' is present, and that block ends the chain: an 'else' after
\* it is left unconsumed.  An 'else' followed by neither 'if' nor '{' records
\* one error at that 'else'.
C15_IfChain ==
    IfParsed =>
        IF src.tail = "bad"
        THEN /\ p.errors = <<[text |-> ElseMessage, pos |-> p.l.toks[AfterParts].Pos]>>
             /\ p.errorLines = <<Sline(p.l.toks[AfterParts].Pos)>>
        ELSE /\ p.errors = <<>>
             /\ statement.Expression.kind = "IfExpression"
             /\ Len(statement.Expression.Conditions) = src.parts
             /\ \A i \in 1..src.parts :
                   LET c == statement.Expression.Conditions[i]
                   IN  /\ c.Token = p.l.toks[IfToken(i)]
                       /\ c.Cond.Token = p.l.toks[IfToken(i) + 1]
                       /\ Len(c.Body.Statements) = Len(src.body)
             /\ (statement.Expression.Alternative # Absent) <=> (src.tail # "none")
             /\ src.tail # "none" =>
                   /\ Len(statement.Expression.Alternative.Statements) = 1
                   /\ statement.Expression.Alternative.Statements[1].Token
                        = p.l.toks[AfterParts + 2]
                   /\ p.cur = AfterParts + 3
             /\ src.tail = "elseelse" => peekToken(p).Type = "ELSE"

C15_Witness ==
    /\ IfParsed /\ src.parts = 3 /\ src.tail = "elseelse"
    /\ Len(statement.Expression.Conditions) = 3
    /\ statement.Expression.Alternative # Absent
    /\ peekToken(p).Type = "ELSE"

\* s is an initial segment of t
IsPrefix(s, t) == Len(s) <= Len(t) /\ SubSeq(t, 1, Len(s)) = s

\* C16: errors and errorLines stay parallel: they have the same length in
\* every state, and every step of the parser leaves the entries both lists
\* had in place, appending the same number of entries to each.
C16_ErrorListsParallel ==
    /\ [](Len(p.errors) = Len(p.errorLines))
    /\ [][/\ IsPrefix(p.errors, p'.errors)
          /\ IsPrefix(p.errorLines, p'.errorLines)
          /\ Len(p'.errors) - Len(p.errors) = Len(p'.errorLines) - Len(p.errorLines)]_vars

\* the diagnostics of an imported file followed by one of the importing file
C16_Witness ==
    /\ src.form = "import"
    /\ Len(p.errors) = 3 /\ Len(p.errorLines) = 3
    /\ p.errors[1].pos.Filename = <<"cwd", "b">>
    /\ p.errors[2].pos.Filename = <<"cwd", "b">>
    /\ p.errors[3].pos.Filename = <<>>
    /\ p.errorLines[3] = Sline(p.errors[3].pos)

\* C17: ParseProgram returns a Program for every token stream, never an absent
\* one, also when a parse function panics and the deferred function of
\* ParseProgram recovers the panic.
C17_AlwaysProgram == pc = "done" => ret # Absent

\* the import statements of the source text whose file is found neither in
\* the importing file's directory nor under the root
MissingImports == {i \in 1..Len(src.imports) : ~Resolves(src.imports[i].path)}

\* every import of the source text is of a missing file or of a file that
\* parses without a diagnostic
OnlyCleanOrMissing ==
    \A i \in 1..Len(src.imports) :
        src.imports[i].path \in {<<"m">>, <<"g">>, <<"a">>, <<"a", "c">>}

\* C18: an import of a missing file records exactly one error and one line
\* locator, and nothing else: the statements after it are parsed as after an
\* import of an empty file, also when the import statement ends with ';'.
C18_MissingImportLocal ==
    (src.form = "import" /\ OnlyCleanOrMissing /\ pc = "done") =>
        /\ Len(p.errors) = Cardinality(MissingImports)
        /\ Len(p.errorLines) = Cardinality(MissingImports)
        /\ \A n \in 1..Len(p.errors) : p.errors[n].text = "no file or directory"
        /\ ret # Absent
        /\ Len(ret.Statements) = Len(src.rest)
        /\ \A n \in 1..Len(src.rest) :
              ret.Statements[n].Token.Literal = src.rest[n].Literal

\* the diagnostics a parse of each file of the file system records, in order
Diagnostic(text, file, line, col) == [text |-> text, pos |-> Position(file, line, col)]

DiagnosticsOf(file) ==
    LET ofB == <<Diagnostic(JumpMessage("BREAK"), <<"cwd", "b">>, 1, 1),
                 Diagnostic(JumpMessage("CONTINUE"), <<"cwd", "b">>, 2, 1)>>
    IN  CASE file = <<"cwd", "b">> -> ofB
          [] file = <<"cwd", "n">> ->
                ofB \o <<Diagnostic(JumpMessage("CONTINUE"), <<"cwd", "n">>, 1, 10)>>
          [] file = <<"cwd", "e">> ->
                <<Diagnostic("no prefix parse functions found", <<"cwd", "e">>, 1, 1),
                  Diagnostic(JumpMessage("BREAK"), <<"cwd", "e">>, 1, 3)>>
          [] OTHER -> <<>>

\* ParseProgram is about to parse the i-th import statement of the source
\* text, and the file of that statement is found
FoundImportAhead(i) ==
    /\ src.form = "import" /\ pc = "loop"
    /\ p.cur = ImportToken(i)
    /\ Resolves(src.imports[i].path)

\* C19: an import statement whose file is found appends to the importer's
\* errors and errorLines, after the entries they hold, every entry the nested
\* parser accumulated, in the nested parser's order, including the entries the
\* nested parser took over from its own imports.
C19_NestedErrorsVisible ==
    [][\A i \in 1..(IF src.form = "import" THEN Len(src.imports) ELSE 0) :
          (FoundImportAhead(i) /\ ParseProgramStatement) =>
              LET ds == DiagnosticsOf(ResolvedFile(src.imports[i].path))
              IN  /\ p'.errors = p.errors \o ds
                  /\ p'.errorLines = p.errorLines \o [n \in 1..Len(ds) |-> Sline(ds[n].pos)]]_vars

C19_Witness ==
    /\ src.form = "import" /\ pc = "parsed"
    /\ Len(src.imports) = 2
    /\ src.imports[1].path = <<"m">> /\ src.imports[2].path = <<"n">>
    /\ p.cur >= ImportToken(2)
    /\ Len(p.errors) = 4
    /\ p.errors[1].pos.Filename = <<>>
    /\ p.errors[2].pos.Filename = <<"cwd", "b">>
    /\ p.errors[4].pos.Filename = <<"cwd", "n">>

\* position a is not after position b
NotAfter(a, b) == a.Line < b.Line \/ (a.Line = b.Line /\ a.Col <= b.Col)

\* the position just past the i-th token of the source text
PastToken(i) ==
    Position(p.l.toks[i].Pos.Filename, p.l.toks[i].Pos.Line,
             p.l.toks[i].Pos.Col + RuneCountInString(p.l.toks[i].Literal))

\* every node of the expression n has the span of its text: an infix
\* expression from the first character of its left operand to the end of its
\* right operand, a leaf from its token to just past its literal
RECURSIVE WellSpanned(_)
WellSpanned(n) ==
    /\ NotAfter(Pos(n), End(n))
    /\ IF n.kind = "InfixExpression"
       THEN /\ Pos(n) = Pos(n.Left) /\ End(n) = End(n.Right)
            /\ WellSpanned(n.Left) /\ WellSpanned(n.Right)
       ELSE /\ End(n).Line = Pos(n).Line
            /\ End(n).Col = Pos(n).Col + RuneCountInString(n.Token.Literal)

\* C20: the span of every node is that of its text: the expression statement
\* made of 'a op b op ...' and its expression start at the first character of
\* the first operand and end just past the last operand, every infix
\* expression in it spans from the start of its left operand to the end of its
\* right operand, a leaf ends on its line at its column plus the length of its
\* literal, and Pos is never after End.
C20_SpansConsistent ==
    (src.form = "infix" /\ FirstParsed /\ statement.Expression # Absent) =>
        /\ Pos(statement) = p.l.toks[1].Pos
        /\ End(statement) = PastToken(Len(src.lexemes))
        /\ Pos(statement.Expression) = p.l.toks[1].Pos
        /\ End(statement.Expression) = PastToken(Len(src.lexemes))
        /\ WellSpanned(statement.Expression)

NoPrefixMessage == "no prefix parse functions found"

\* the token types parseStatement does not hand to parseExpressionStatement
StatementKeywords == {"IMPORT", "LET", "RETURN", "LBRACE", "STRUCT"}

\* the next top-level statement is an expression statement whose first token
\* has no prefix strategy: parseExpression is entered on that token
NoPrefixAhead ==
    /\ pc = "loop"
    /\ curToken(p).Type \notin prefixRegistered \cup StatementKeywords \cup {"EOF"}

\* the source text is an operand and a '+' with nothing after it: its right
\* operand is parsed with the end-of-stream token as the current token
RightOperandAtEnd ==
    /\ src.form = "tokens" /\ Len(src.lexemes) = 2
    /\ src.lexemes[1].Type \in {"IDENTIFIER", "NUMBER"}
    /\ src.lexemes[2].Type = "PLUS"
    /\ pc = "parsed"

\* C21: parseExpression entered on a token without a prefix strategy records
\* one "no prefix parse function" error with one line locator at that token,
\* yields no expression and consumes no token (the statement around it takes
\* a following ';'); so does the end-of-stream token, on which the right
\* operand of a trailing '+' is parsed.
C21_NoPrefixError ==
    /\ [][(NoPrefixAhead /\ ParseProgramStatement) =>
            /\ p'.errors = Append(p.errors, [text |-> NoPrefixMessage,
                                             pos |-> curToken(p).Pos])
            /\ p'.errorLines = Append(p.errorLines, Sline(curToken(p).Pos))
            /\ statement'.Expression = Absent
            /\ p'.cur = p.cur + (IF peekTokenIs(p, "SEMICOLON") THEN 1 ELSE 0)]_vars
    /\ [](RightOperandAtEnd =>
            /\ p.errors = <<[text |-> NoPrefixMessage, pos |-> p.l.eof.Pos]>>
            /\ p.errorLines = <<Sline(p.l.eof.Pos)>>
            /\ statement.Expression.Right = Absent)

\* C22: nothing detects a cycle of imports: when the source text imports a
\* file that imports itself, or one of two files that import each other,
\* every import statement on the cycle starts a nested parser, down to the
\* depth at which the stack is exhausted; ParseProgram never gets past that
\* import statement and never returns.
C22_NoCycleDetection ==
    src.form = "cycle" =>
        /\ pc \in {"loop", "parsed", "crashed"}
        /\ pc = "loop" => p.cur <= Len(src.before) + 1
        /\ pc = "parsed" => p.cur <= Len(src.before)
        /\ pc = "crashed" => p.fault = "fatal"

C22_Witness ==
    /\ src.form = "cycle" /\ src.path = <<"q">> /\ src.before # <<>>
    /\ pc = "crashed" /\ p.fault = "fatal"
    /\ Len(program.Statements) = 1

\* the source text holds no import statement
ImportFree == src.form \notin {"import", "cycle"}

\* the steps ParseProgram has left at most: four for every token not yet the
\* current one, and those of the turn of the loop it is in
StepsLeft ==
    4 * (Len(p.l.toks) + 1 - p.cur)
    + (CASE pc = "loop" -> IF curToken(p).Type = "EOF" THEN 1 ELSE 3
         [] pc \in {"parsed", "panicking"} -> 2
         [] OTHER -> 0)

\* C23: on a source text without import statements ParseProgram terminates:
\* until it has returned it is at a place from which it takes a step (the
\* loop test, the end of the loop body, or the deferred function), and every
\* step lowers the number of steps left, which is never negative.  Tokens are taken in
\* stream order: the current token never moves back, and every turn of the
\* statement loop moves on by one token until the end-of-stream token is the
\* current one.
C23_ParseProgramTerminates ==
    /\ [](ImportFree =>
            /\ StepsLeft >= 0
            /\ p.cur <= Len(p.l.toks) + 1
            /\ pc \in {"loop", "parsed", "panicking", "done"})
    /\ [][ImportFree =>
            /\ StepsLeft' < StepsLeft
            /\ p'.cur >= p.cur
            /\ ParseProgramNextToken =>
                  (p'.cur = p.cur + 1 \/ curToken(p).Type = "EOF")]_vars

\* ParseProgram has returned on a source text that opened three blocks and
\* closed none
C23_Witness ==
    /\ src.form = "tokens" /\ Len(src.lexemes) = 3
    /\ \A i \in 1..3 : src.lexemes[i].Type = "LBRACE"
    /\ pc = "done" /\ ret # Absent
    /\ curToken(p).Type = "EOF"

\* s is a statement node, neither absent nor a nil pointer in an interface
Present(s) == s # Absent /\ "nilPointer" \notin DOMAIN s

\* every statement of the list, and of the blocks among them, is present
RECURSIVE AllPresent(_)
AllPresent(stmts) ==
    \A i \in 1..Len(stmts) :
        /\ Present(stmts[i])
        /\ stmts[i].kind = "BlockStatement" => AllPresent(stmts[i].Statements)

\* C24: the Statements of the Program and of every block hold present
\* statement nodes only: a statement parse function that reports an error and
\* yields no node (a 'let' whose target is 'self') adds nothing to the list.
C24_OnlyPresentStatements == AllPresent(program.Statements)

====
